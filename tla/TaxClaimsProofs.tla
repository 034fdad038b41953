--------------------------- MODULE TaxClaimsProofs ---------------------------
(***************************************************************************)
(* What holds of TaxClaims for every set of workers, every table of        *)
(* limits, every amount and every assessment to start from: the properties *)
(* TaxClaims states, all by way of FreshInv, which says that what          *)
(* a call has validated still holds when it writes, unless another call    *)
(* has committed in between.                                               *)
(*                                                                         *)
(* The amounts of claims are added up by a fold that is defined by         *)
(* recursion, so that the first part proves what is needed of such sums.   *)
(***************************************************************************)
EXTENDS TaxClaims, FiniteSetTheorems, WellFoundedInduction, TLAPS

----------------------------------------------------------------------------
(* Sums over finite sets.  The induction is over the size of the sets: the *)
(* least counterexample exists because < is well-founded on the naturals.  *)

\* Every set of naturals that is not empty has a least element: what induction is done with here.
LEMMA Least ==
  ASSUME NEW T \in SUBSET Nat, T # {}
  PROVE  \E n \in T : \A m \in T : n <= m
<1>. DEFINE Before == {pair \in Nat \X Nat : pair[1] < pair[2]}
<1>1. IsWellFoundedOn(Before, Nat)
  BY NatLessThanWellFounded DEF OpToRel
<1>2. PICK n \in T : \A m \in T : <<m, n>> \notin Before
  <2>. HIDE DEF Before
  <2>. QED
    BY <1>1, WFMin, Zenon
<1>3. ASSUME NEW m \in T
      PROVE  n <= m
  <2>1. m \in Nat /\ n \in Nat /\ ~ m < n
    BY <1>2
  <2>. QED
    BY <2>1
<1>. QED
  BY <1>3

\* f is the sum of a over the subsets of S, taken in the order of CHOOSE.
Sums(f, a, S) ==
  f = [s \in SUBSET S |-> IF s = {} THEN 0
                          ELSE a[CHOOSE x \in s : TRUE] + f[s \ {CHOOSE x \in s : TRUE}]]

LEMMA Chosen ==
  ASSUME NEW s, s # {}
  PROVE  (CHOOSE x \in s : TRUE) \in s
OBVIOUS

LEMMA Smaller ==
  ASSUME NEW S, IsFiniteSet(S), NEW s \in SUBSET S, NEW x \in s
  PROVE  /\ IsFiniteSet(s) /\ Cardinality(s) \in Nat \ {0}
         /\ s \ {x} \in SUBSET S /\ Cardinality(s \ {x}) = Cardinality(s) - 1
<1>1. IsFiniteSet(s)
  BY FS_Subset
<1>2. Cardinality(s) \in Nat /\ (Cardinality(s) = 0 <=> s = {})
  BY <1>1, FS_CardinalityType, FS_EmptySet
<1>3. Cardinality(s \ {x}) = Cardinality(s) - 1
  BY <1>1, FS_RemoveElement
<1>. QED
  BY <1>1, <1>2, <1>3

\* Such an f exists, by induction over the size of the subsets it is defined for.
LEMMA SumsExist ==
  ASSUME NEW S, IsFiniteSet(S), NEW a \in [S -> Int]
  PROVE  \E f : Sums(f, a, S)
<1>. DEFINE Upto(n) == {s \in SUBSET S : Cardinality(s) <= n}
            Pick(s) == CHOOSE x \in s : TRUE
            Value(f, s) == IF s = {} THEN 0 ELSE a[Pick(s)] + f[s \ {Pick(s)}]
            Bad == {n \in Nat : ~ \E f : f = [s \in Upto(n) |-> Value(f, s)]}
<1>1. \A s \in SUBSET S : s # {} => Pick(s) \in s
  BY Chosen
<1>2. \A s \in SUBSET S : Cardinality(s) \in Nat
  BY FS_Subset, FS_CardinalityType
<1>3. \A s \in SUBSET S : s # {} => /\ s \ {Pick(s)} \in SUBSET S
                                    /\ Cardinality(s \ {Pick(s)}) = Cardinality(s) - 1
                                    /\ Cardinality(s) # 0
  BY <1>1, Smaller
<1>4. 0 \notin Bad
  <2>. DEFINE f == [s \in Upto(0) |-> 0]
  <2>1. ASSUME NEW s \in Upto(0)
        PROVE  s = {}
    <3>1. s \in SUBSET S /\ Cardinality(s) \in Nat /\ Cardinality(s) <= 0
      BY <1>2
    <3>2. s # {} => Cardinality(s) # 0
      <4>. HIDE DEF Upto, Pick
      <4>. QED
        BY <3>1, <1>3
    <3>. QED
      BY <3>1, <3>2
  <2>2. f = [s \in Upto(0) |-> Value(f, s)]
    BY <2>1
  <2>. QED
    BY <2>2
<1>5. \A n \in Nat : n \notin Bad => n + 1 \notin Bad
  <2>1. TAKE n \in Nat
  <2>2. HAVE n \notin Bad
  <2>3. PICK f : f = [s \in Upto(n) |-> Value(f, s)]
    BY <2>2
  <2>. DEFINE g == [s \in Upto(n + 1) |-> Value(f, s)]
  <2>4. \A s \in Upto(n) : s \in Upto(n + 1) /\ g[s] = f[s]
    <3>1. \A s \in Upto(n) : f[s] = Value(f, s)
      BY <2>3
    <3>2. \A s \in Upto(n) : s \in Upto(n + 1)
      BY <1>2
    <3>. QED
      BY <3>1, <3>2
  <2>5. \A s \in Upto(n + 1) : s # {} => s \ {Pick(s)} \in Upto(n)
    BY <1>2, <1>3
  <2>6. ASSUME NEW s \in Upto(n + 1)
        PROVE  Value(f, s) = Value(g, s)
    <3>1. CASE s = {}
      BY <3>1
    <3>2. CASE s # {}
      <4>1. f[s \ {Pick(s)}] = g[s \ {Pick(s)}]
        <5>. HIDE DEF g, Pick, Upto
        <5>. QED
          BY <2>4, <2>5, <3>2
      <4>. HIDE DEF g
      <4>. QED
        BY <3>2, <4>1
    <3>. QED
      BY <3>1, <3>2
  <2>7. g = [s \in Upto(n + 1) |-> Value(g, s)]
    BY <2>6
  <2>. QED
    BY <2>7
<1>6. Bad = {}
  <2>1. SUFFICES ASSUME Bad # {} PROVE FALSE
    OBVIOUS
  <2>2. Bad \in SUBSET Nat
    OBVIOUS
  <2>3. PICK n \in Bad : \A m \in Bad : n <= m
    <3>. HIDE DEF Bad
    <3>. QED
      BY <2>1, <2>2, Least
  <2>4. n \in Nat /\ n # 0
    BY <1>4
  <2>5. n - 1 \in Nat /\ n - 1 \notin Bad
    <3>. HIDE DEF Bad
    <3>. QED
      BY <2>3, <2>4, <2>2
  <2>6. n - 1 + 1 \notin Bad
    <3>. HIDE DEF Bad
    <3>. QED
      BY <1>5, <2>5
  <2>. QED
    <3>. HIDE DEF Bad
    <3>. QED
      BY <2>3, <2>4, <2>6
<1>7. Cardinality(S) \in Nat /\ Upto(Cardinality(S)) = SUBSET S
  BY FS_Subset, FS_CardinalityType
<1>8. PICK f : f = [s \in Upto(Cardinality(S)) |-> Value(f, s)]
  BY <1>6, <1>7
<1>9. Sums(f, a, S)
  BY <1>7, <1>8 DEF Sums
<1>. QED
  BY <1>9
\* Induction over the subsets of a finite set.
LEMMA SubsetInduction ==
  ASSUME NEW S, IsFiniteSet(S), NEW Good \in SUBSET SUBSET S,
         \A s \in SUBSET S : (\A x \in s : s \ {x} \in Good) => s \in Good
  PROVE  Good = SUBSET S
<1>. DEFINE Sizes == {n \in Nat : \E s \in SUBSET S : s \notin Good /\ Cardinality(s) = n}
<1>1. SUFFICES ASSUME NEW s \in SUBSET S, s \notin Good PROVE FALSE
  OBVIOUS
<1>2. \A t \in SUBSET S : Cardinality(t) \in Nat
  BY FS_Subset, FS_CardinalityType
<1>3. Sizes # {} /\ Sizes \in SUBSET Nat
  BY <1>1, <1>2
<1>4. PICK n \in Sizes : \A m \in Sizes : n <= m
  <2>. HIDE DEF Sizes
  <2>. QED
    BY <1>3, Least
<1>5. PICK t \in SUBSET S : t \notin Good /\ Cardinality(t) = n
  OBVIOUS
<1>6. PICK x \in t : t \ {x} \notin Good
  BY <1>5
<1>7. t \ {x} \in SUBSET S /\ Cardinality(t \ {x}) = n - 1 /\ n \in Nat \ {0}
  BY <1>5, Smaller
<1>8. n - 1 \in Nat /\ n - 1 \in Sizes
  BY <1>6, <1>7
<1>. QED
  <2>. HIDE DEF Sizes
  <2>. QED
    BY <1>4, <1>7, <1>8

LEMMA SumsType ==
  ASSUME NEW S, IsFiniteSet(S), NEW a \in [S -> Int], NEW f, Sums(f, a, S)
  PROVE  f \in [SUBSET S -> Int]
<1>. DEFINE Pick(s) == CHOOSE x \in s : TRUE
            Good == {s \in SUBSET S : f[s] \in Int}
<1>1. \A s \in SUBSET S : s # {} => Pick(s) \in s
  BY Chosen
<1>2. f[{}] = 0 /\ \A s \in SUBSET S : s # {} => f[s] = a[Pick(s)] + f[s \ {Pick(s)}]
  BY DEF Sums
<1>3. ASSUME NEW s \in SUBSET S, \A x \in s : s \ {x} \in Good
      PROVE  s \in Good
  <2>1. CASE s = {}
    BY <1>2, <2>1
  <2>2. CASE s # {}
    <3>1. Pick(s) \in s /\ a[Pick(s)] \in Int /\ f[s] = a[Pick(s)] + f[s \ {Pick(s)}]
      BY <1>1, <1>2, <2>2
    <3>2. f[s \ {Pick(s)}] \in Int
      BY <1>3, <3>1
    <3>. HIDE DEF Pick
    <3>. QED
      BY <3>1, <3>2
  <2>. QED
    BY <2>1, <2>2
<1>4. Good = SUBSET S
  <2>1. Good \in SUBSET SUBSET S
    OBVIOUS
  <2>. HIDE DEF Good
  <2>. QED
    BY <1>3, <2>1, SubsetInduction
<1>5. DOMAIN f = SUBSET S /\ f = [s \in SUBSET S |-> f[s]]
  BY DEF Sums
<1>. QED
  BY <1>4, <1>5

\* A sum does not depend on the order it is taken in.
LEMMA SumsSplit ==
  ASSUME NEW S, IsFiniteSet(S), NEW a \in [S -> Int], NEW f, Sums(f, a, S)
  PROVE  f[{}] = 0 /\ \A s \in SUBSET S : \A y \in s : f[s] = a[y] + f[s \ {y}]
<1>. DEFINE Pick(s) == CHOOSE x \in s : TRUE
            Good == {s \in SUBSET S : \A y \in s : f[s] = a[y] + f[s \ {y}]}
<1>1. \A s \in SUBSET S : s # {} => Pick(s) \in s
  BY Chosen
<1>2. f[{}] = 0 /\ \A s \in SUBSET S : s # {} => f[s] = a[Pick(s)] + f[s \ {Pick(s)}]
  BY DEF Sums
<1>3. ASSUME NEW s \in SUBSET S, \A x \in s : s \ {x} \in Good
      PROVE  s \in Good
  <2>1. SUFFICES ASSUME NEW y \in s PROVE f[s] = a[y] + f[s \ {y}]
    OBVIOUS
  <2>2. PICK x \in s : f[s] = a[x] + f[s \ {x}]
    BY <1>1, <1>2
  <2>3. CASE y = x
    BY <2>2, <2>3
  <2>4. CASE y # x
    <3>. DEFINE rest == (s \ {x}) \ {y}
    <3>1. /\ y \in s \ {x} /\ x \in s \ {y} /\ s \ {x} \in Good /\ s \ {y} \in Good
          /\ (s \ {y}) \ {x} = rest /\ rest \in SUBSET S
      BY <1>3, <2>4
    <3>2. /\ f[s \ {x}] = a[y] + f[rest]
          /\ f[s \ {y}] = a[x] + f[rest]
      BY <3>1
    <3>3. a[x] \in Int /\ a[y] \in Int /\ f[rest] \in Int
      <4>1. f \in [SUBSET S -> Int]
        BY SumsType
      <4>. HIDE DEF rest
      <4>. QED
        BY <3>1, <4>1
    <3>. HIDE DEF rest
    <3>. QED
      BY <2>2, <3>2, <3>3
  <2>. QED
    BY <2>3, <2>4
<1>4. Good = SUBSET S
  <2>1. Good \in SUBSET SUBSET S
    OBVIOUS
  <2>. HIDE DEF Good
  <2>. QED
    BY <1>3, <2>1, SubsetInduction
<1>. QED
  BY <1>2, <1>4

\* Nor on anything but the values of the elements.
LEMMA SumsAgree ==
  ASSUME NEW S, IsFiniteSet(S), NEW a \in [S -> Int], NEW f, Sums(f, a, S),
         NEW T, IsFiniteSet(T), NEW b \in [T -> Int], NEW g, Sums(g, b, T),
         NEW U, U \subseteq S, U \subseteq T, \A x \in U : a[x] = b[x]
  PROVE  f[U] = g[U]
<1>. DEFINE Good == {s \in SUBSET U : f[s] = g[s]}
<1>1. IsFiniteSet(U)
  BY FS_Subset
<1>2. ASSUME NEW s \in SUBSET U, \A x \in s : s \ {x} \in Good
      PROVE  s \in Good
  <2>1. CASE s = {}
    BY <2>1, SumsSplit
  <2>2. CASE s # {}
    <3>1. PICK x \in s : TRUE
      BY <2>2
    <3>2. f[s] = a[x] + f[s \ {x}] /\ g[s] = b[x] + g[s \ {x}]
      <4>1. s \in SUBSET S /\ s \in SUBSET T
        OBVIOUS
      <4>. QED
        BY <4>1, SumsSplit
    <3>3. a[x] = b[x] /\ f[s \ {x}] = g[s \ {x}]
      BY <1>2
    <3>. QED
      BY <3>2, <3>3
  <2>. QED
    BY <2>1, <2>2
<1>3. Good = SUBSET U
  <2>1. Good \in SUBSET SUBSET U
    OBVIOUS
  <2>. HIDE DEF Good
  <2>. QED
    BY <1>1, <1>2, <2>1, SubsetInduction
<1>. QED
  BY <1>3

\* With fewer addends that are not negative a sum is not greater.
LEMMA SumsMonotone ==
  ASSUME NEW S, IsFiniteSet(S), NEW a \in [S -> Nat], NEW f, Sums(f, a, S),
         NEW T \in SUBSET S
  PROVE  0 <= f[T] /\ f[T] <= f[S]
<1>1. f \in [SUBSET S -> Int] /\ f[{}] = 0 /\ a \in [S -> Int]
  <2>1. a \in [S -> Int]
    OBVIOUS
  <2>. QED
    BY <2>1, SumsType, SumsSplit
<1>2. ASSUME NEW t \in SUBSET S
      PROVE  f[t] <= f[S]
  <2>. DEFINE Good == {s \in SUBSET S : t \subseteq s => f[t] <= f[s]}
  <2>1. ASSUME NEW s \in SUBSET S, \A x \in s : s \ {x} \in Good
        PROVE  s \in Good
    <3>1. SUFFICES ASSUME t \subseteq s PROVE f[t] <= f[s]
      OBVIOUS
    <3>2. CASE s = t
      BY <1>1, <3>2
    <3>3. CASE s # t
      <4>1. PICK x \in s : x \notin t
        BY <3>1, <3>3
      <4>2. f[s] = a[x] + f[s \ {x}] /\ a[x] \in Nat
        BY <1>1, SumsSplit
      <4>3. f[t] <= f[s \ {x}]
        BY <2>1, <3>1, <4>1
      <4>4. f[t] \in Int /\ f[s \ {x}] \in Int
        BY <1>1
      <4>. QED
        BY <4>2, <4>3, <4>4
    <3>. QED
      BY <3>2, <3>3
  <2>2. Good \in SUBSET SUBSET S
    OBVIOUS
  <2>3. Good = SUBSET S
    <3>. HIDE DEF Good
    <3>. QED
      BY <2>1, <2>2, SubsetInduction
  <2>. QED
    BY <2>3
<1>3. f[T] <= f[S]
  BY <1>2
<1>4. f[{}] <= f[T]
  <2>. DEFINE Good == {s \in SUBSET S : 0 <= f[s]}
  <2>1. ASSUME NEW s \in SUBSET S, \A x \in s : s \ {x} \in Good
        PROVE  s \in Good
    <3>1. CASE s = {}
      BY <1>1, <3>1
    <3>2. CASE s # {}
      <4>1. PICK x \in s : TRUE
        BY <3>2
      <4>2. f[s] = a[x] + f[s \ {x}] /\ a[x] \in Nat
        BY <1>1, SumsSplit
      <4>3. 0 <= f[s \ {x}] /\ f[s \ {x}] \in Int
        BY <1>1, <2>1
      <4>. QED
        BY <4>2, <4>3
    <3>. QED
      BY <3>1, <3>2
  <2>2. Good \in SUBSET SUBSET S
    OBVIOUS
  <2>3. Good = SUBSET S
    <3>. HIDE DEF Good
    <3>. QED
      BY <2>1, <2>2, SubsetInduction
  <2>. QED
    BY <1>1, <2>3
<1>. QED
  BY <1>1, <1>3, <1>4

----------------------------------------------------------------------------
(* Tables. *)

\* The sum of amounts the model takes is such a sum.
LEMMA TotalSums ==
  ASSUME NEW table, NEW S, IsFiniteSet(S), \A i \in S : table[i].amount \in Int
  PROVE  \E f : Sums(f, [i \in S |-> table[i].amount], S) /\ Total(table, S) = f[S]
<1>. DEFINE a == [i \in S |-> table[i].amount]
            Adds(f) == f = [s \in SUBSET S |-> IF s = {} THEN 0
                              ELSE table[CHOOSE x \in s : TRUE].amount + f[s \ {CHOOSE x \in s : TRUE}]]
<1>1. a \in [S -> Int]
  OBVIOUS
<1>2. \A f : Adds(f) <=> Sums(f, a, S)
  <2>1. \A s \in SUBSET S : s # {} => (CHOOSE x \in s : TRUE) \in S
    BY Chosen
  <2>2. \A s \in SUBSET S : s # {} => a[CHOOSE x \in s : TRUE] = table[CHOOSE x \in s : TRUE].amount
    BY <2>1
  <2>3. TAKE f
  <2>4. [s \in SUBSET S |-> IF s = {} THEN 0
           ELSE table[CHOOSE x \in s : TRUE].amount + f[s \ {CHOOSE x \in s : TRUE}]]
        = [s \in SUBSET S |-> IF s = {} THEN 0
             ELSE a[CHOOSE x \in s : TRUE] + f[s \ {CHOOSE x \in s : TRUE}]]
    BY <2>2
  <2>. QED
    BY <2>4 DEF Sums
<1>3. \E f : Adds(f)
  <2>. HIDE DEF a, Adds
  <2>. QED
    BY <1>1, <1>2, SumsExist
<1>4. Adds(CHOOSE f : Adds(f))
  <2>. HIDE DEF Adds
  <2>. QED
    BY <1>3
<1>5. Total(table, S) = (CHOOSE f : Adds(f))[S]
  BY DEF Total, MapThenSumSet, MapThenFoldSet
<1>. QED
  <2>. HIDE DEF a, Adds
  <2>1. Sums(CHOOSE f : Adds(f), a, S)
    BY <1>2, <1>4
  <2>. QED
    BY <1>5, <2>1 DEF a

\* What the proofs use of sums of amounts.
LEMMA TotalWithin ==
  ASSUME NEW table, NEW S, IsFiniteSet(S), \A i \in S : table[i].amount \in Nat,
         NEW other, NEW T \in SUBSET S, \A i \in T : other[i].amount = table[i].amount
  PROVE  /\ Total(table, S) \in Nat /\ Total(other, T) \in Nat
         /\ Total(other, T) <= Total(table, S)
         /\ T = S => Total(other, T) = Total(table, S)
<1>. DEFINE a == [i \in S |-> table[i].amount]
            b == [i \in T |-> other[i].amount]
<1>1. IsFiniteSet(T) /\ \A i \in T : other[i].amount \in Int
  BY FS_Subset
<1>2. PICK f : Sums(f, a, S) /\ Total(table, S) = f[S]
  BY TotalSums
<1>3. PICK g : Sums(g, b, T) /\ Total(other, T) = g[T]
  BY <1>1, TotalSums
<1>4. /\ a \in [S -> Nat] /\ a \in [S -> Int] /\ b \in [T -> Int]
      /\ \A x \in T : b[x] = a[x]
  BY <1>1
<1>5. g[T] = f[T]
  <2>. HIDE DEF a, b
  <2>1. T \subseteq T /\ T \subseteq S
    OBVIOUS
  <2>. QED
    BY <1>1, <1>2, <1>3, <1>4, <2>1, SumsAgree
<1>6. 0 <= f[T] /\ f[T] <= f[S] /\ f \in [SUBSET S -> Int]
  <2>. HIDE DEF a
  <2>. QED
    BY <1>2, <1>4, SumsMonotone, SumsType
<1>. QED
  BY <1>2, <1>3, <1>5, <1>6

LEMMA TotalSplit ==
  ASSUME NEW table, NEW S, IsFiniteSet(S), \A i \in S : table[i].amount \in Nat, NEW y \in S
  PROVE  Total(table, S) = table[y].amount + Total(table, S \ {y})
<1>. DEFINE a == [i \in S |-> table[i].amount]
            T == S \ {y}
            b == [i \in T |-> table[i].amount]
<1>1. IsFiniteSet(T) /\ \A i \in T : table[i].amount \in Int
  BY FS_Subset
<1>2. PICK f : Sums(f, a, S) /\ Total(table, S) = f[S]
  BY TotalSums
<1>3. PICK g : Sums(g, b, T) /\ Total(table, T) = g[T]
  <2>. HIDE DEF T
  <2>. QED
    BY <1>1, TotalSums
<1>4. a \in [S -> Int] /\ b \in [T -> Int] /\ \A x \in T : b[x] = a[x]
  BY <1>1
<1>5. g[T] = f[T]
  <2>1. T \subseteq T /\ T \subseteq S
    OBVIOUS
  <2>. HIDE DEF a, b, T
  <2>. QED
    BY <1>1, <1>2, <1>3, <1>4, <2>1, SumsAgree
<1>6. f[S] = a[y] + f[S \ {y}]
  <2>1. Sums(f, a, S) /\ a \in [S -> Int]
    BY <1>2, <1>4
  <2>2. PICK c : c = a
    OBVIOUS
  <2>3. Sums(f, c, S) /\ c \in [S -> Int]
    <3>. HIDE DEF a
    <3>. QED
      BY <2>1, <2>2
  <2>4. f[S] = c[y] + f[S \ {y}]
    BY <2>3, SumsSplit
  <2>. QED
    BY <2>2, <2>4
<1>. QED
  BY <1>2, <1>3, <1>5, <1>6

LEMMA TotalEmpty ==
  ASSUME NEW table
  PROVE  Total(table, {}) = 0
<1>. DEFINE a == [i \in {} |-> table[i].amount]
<1>1. IsFiniteSet({}) /\ a \in [{} -> Int] /\ \A i \in {} : table[i].amount \in Int
  BY FS_EmptySet
<1>2. PICK f : Sums(f, a, {}) /\ Total(table, {}) = f[{}]
  BY <1>1, TotalSums
<1>. QED
  <2>. HIDE DEF a
  <2>. QED
    BY <1>1, <1>2, SumsSplit

\* With one more addend a sum is greater by it.
LEMMA TotalAdded ==
  ASSUME NEW table, NEW S, IsFiniteSet(S), \A i \in S : table[i].amount \in Nat,
         NEW other, \A i \in S : other[i].amount = table[i].amount,
         NEW y, y \notin S, other[y].amount \in Nat
  PROVE  Total(other, S \cup {y}) = Total(table, S) + other[y].amount
<1>1. IsFiniteSet(S \cup {y}) /\ (S \cup {y}) \ {y} = S
  BY FS_AddElement
<1>2. Total(other, S \cup {y}) = other[y].amount + Total(other, S)
  BY <1>1, TotalSplit
<1>3. Total(other, S) = Total(table, S) /\ Total(table, S) \in Nat
  BY TotalWithin
<1>. QED
  BY <1>2, <1>3

LEMMA TotalSingle ==
  ASSUME NEW table, NEW y, table[y].amount \in Nat
  PROVE  Total(table, {y}) = table[y].amount
<1>1. y \in {y} /\ IsFiniteSet({y}) /\ {y} \ {y} = {}
  BY FS_Singleton
<1>2. Total(table, {y}) = table[y].amount + Total(table, {y} \ {y})
  BY <1>1, TotalSplit
<1>. QED
  BY <1>1, <1>2, TotalEmpty

LEMMA RowsAre ==
  ASSUME NEW Row, NEW table \in Seq(Row)
  PROVE  table \in [1 .. Len(table) -> Row] /\ Len(table) \in Nat /\ DOMAIN table = 1 .. Len(table)
OBVIOUS

\* A table that gets a row keeps its type and its rows.
LEMMA RowAdded ==
  ASSUME NEW Row, NEW table \in Seq(Row), NEW x \in Row
  PROVE  /\ Append(table, x) \in Seq(Row)
         /\ DOMAIN Append(table, x) = DOMAIN table \cup {Len(table) + 1}
         /\ Len(table) + 1 \notin DOMAIN table /\ Len(table) + 1 \in Nat \ {0}
         /\ \A i \in DOMAIN table : Append(table, x)[i] = table[i]
         /\ Append(table, x)[Len(table) + 1] = x
OBVIOUS

\* A table of which a row is changed keeps its type and its other rows.
LEMMA RowChanged ==
  ASSUME NEW Row, NEW table \in Seq(Row), NEW r \in DOMAIN table, NEW x \in Row
  PROVE  /\ [table EXCEPT ![r] = x] \in Seq(Row)
         /\ DOMAIN [table EXCEPT ![r] = x] = DOMAIN table
         /\ \A i \in DOMAIN table : [table EXCEPT ![r] = x][i] = IF i = r THEN x ELSE table[i]
<1>1. table \in [1 .. Len(table) -> Row] /\ Len(table) \in Nat
  OBVIOUS
<1>2. [table EXCEPT ![r] = x] \in [1 .. Len(table) -> Row]
  BY <1>1
<1>. QED
  BY <1>1, <1>2

\* So does one of which any rows are.
LEMMA RowsChanged ==
  ASSUME NEW Row, NEW table \in Seq(Row), NEW new \in [DOMAIN table -> Row]
  PROVE  new \in Seq(Row) /\ DOMAIN new = DOMAIN table
<1>1. DOMAIN table = 1 .. Len(table) /\ Len(table) \in Nat
  OBVIOUS
<1>2. new \in [1 .. Len(table) -> Row]
  BY <1>1
<1>. QED
  BY <1>1, <1>2

LEMMA RowsFinite ==
  ASSUME NEW Row, NEW table \in Seq(Row), NEW S \in SUBSET DOMAIN table
  PROVE  IsFiniteSet(S) /\ S \subseteq Nat \ {0}
<1>1. DOMAIN table = 1 .. Len(table) /\ Len(table) \in Nat
  OBVIOUS
<1>2. IsFiniteSet(1 .. Len(table))
  BY <1>1, FS_Interval
<1>. QED
  BY <1>1, <1>2, FS_Subset

\* A finite set of integers has a greatest and a least element.
LEMMA Extremes ==
  ASSUME NEW S, IsFiniteSet(S), S \subseteq Nat \ {0}
  PROVE  /\ S # {} => LastOf(S) \in S /\ FirstOf(S) \in S
         /\ S = {} => LastOf(S) = 0 /\ FirstOf(S) = 0
<1>. DEFINE Good == {s \in SUBSET S : s # {} => \E x \in s : \A y \in s : x >= y}
<1>1. ASSUME NEW s \in SUBSET S, \A x \in s : s \ {x} \in Good
      PROVE  s \in Good
  <2>1. SUFFICES ASSUME NEW z \in s PROVE \E x \in s : \A y \in s : x >= y
    OBVIOUS
  <2>2. CASE s \ {z} = {}
    <3>1. \A y \in s : y = z
      BY <2>2
    <3>. QED
      BY <2>1, <3>1
  <2>3. CASE s \ {z} # {}
    <3>1. PICK x \in s \ {z} : \A y \in s \ {z} : x >= y
      BY <1>1, <2>3
    <3>2. x \in Nat /\ z \in Nat /\ s \subseteq Nat
      OBVIOUS
    <3>3. CASE x >= z
      BY <3>1, <3>3
    <3>4. CASE z > x
      BY <3>1, <3>2, <3>4
    <3>. QED
      BY <3>2, <3>3, <3>4
  <2>. QED
    BY <2>2, <2>3
<1>2. Good = SUBSET S
  <2>1. Good \in SUBSET SUBSET S
    OBVIOUS
  <2>. HIDE DEF Good
  <2>. QED
    BY <1>1, <2>1, SubsetInduction
<1>3. S # {} => \E x \in S : \A y \in S : x >= y
  BY <1>2
<1>4. S # {} => \E x \in S : \A y \in S : x <= y
  BY Least
<1>. QED
  BY <1>3, <1>4 DEF LastOf, FirstOf, Max, Min

LEMMA FirstAndLast ==
  ASSUME NEW Row, NEW table \in Seq(Row), NEW S \in SUBSET DOMAIN table
  PROVE  /\ FirstOf(S) # 0 => FirstOf(S) \in S
         /\ LastOf(S) # 0 => LastOf(S) \in S
<1>1. IsFiniteSet(S) /\ S \subseteq Nat \ {0}
  BY RowsFinite
<1>. QED
  BY <1>1, Extremes

----------------------------------------------------------------------------
(* Types. *)

Period == [live : BOOLEAN]
Batch  == [period : Nat, regime : Regimes, live : BOOLEAN]
Decl   == [period : Nat, cat : Categories, amount : Nat, live : BOOLEAN]
Claim  == [decl : Nat, period : Nat, amount : Nat, status : Statuses, live : BOOLEAN]
Steps  == {"idle", "declare", "insert", "amend", "withdraw", "claim", "edit", "drop", "judge",
           "batch", "period", "batches", "tds"}
Call   == [at : Steps, id : Nat, period : Nat, cat : {0} \cup Categories, amount : Nat,
           regime : Regimes, status : Statuses, last : BOOLEAN]

\* Every row is of a period or a declaration there is a row of.
TablesOK ==
  /\ periods \in Seq(Period) /\ batches \in Seq(Batch) /\ tds \in Nat
  /\ decls \in Seq(Decl) /\ claims \in Seq(Claim)
  /\ \A b \in DOMAIN batches : batches[b].period \in DOMAIN periods
  /\ \A d \in DOMAIN decls : decls[d].period \in DOMAIN periods
  /\ \A c \in DOMAIN claims : claims[c].decl \in DOMAIN decls

\* What a call has at each of its steps.
CallOK(c) ==
  /\ c.at \in {"declare", "insert", "withdraw", "batch", "period", "batches", "tds"} =>
       c.period \in DOMAIN periods
  /\ c.at \in {"declare", "insert"} => c.cat \in Categories /\ c.amount <= Limit[c.cat]
  /\ c.at \in {"amend", "withdraw", "claim"} => c.id \in DOMAIN decls
  /\ c.at = "amend" => c.cat \in Categories /\ c.amount <= Limit[c.cat]
  /\ c.at = "withdraw" => c.period = decls[c.id].period
  /\ c.at \in {"edit", "drop", "judge"} => c.id \in DOMAIN claims
  /\ c.at = "batch" => c.id \in DOMAIN batches /\ c.period = batches[c.id].period

TypeOK ==
  /\ TablesOK
  /\ work \in [Workers -> Call] /\ \A w \in Workers : CallOK(work[w])
  /\ calls \in Nat /\ faults \in Nat
  /\ fresh \subseteq Workers
  /\ raced \subseteq {0} \cup DOMAIN decls /\ revived \subseteq DOMAIN decls /\ doubled \in BOOLEAN
  /\ misnamed \subseteq DOMAIN decls

LEMMA IdleType == Idle \in Call /\ CallOK(Idle) /\ CallOK(Idle)' /\ Idle.at = "idle"
BY DEF Idle, Call, CallOK, Steps, Regimes, Statuses

LEMMA TypeInit == Init => TypeOK
<1>1. SUFFICES ASSUME Init PROVE TypeOK
  OBVIOUS
<1>2. PICK s \in Starts : /\ periods = s.periods /\ batches = s.batches /\ tds = s.tds
                          /\ decls = s.decls /\ claims = s.claims
  BY <1>1 DEF Init
<1>3. Sound(s)
  BY StartsAssumption
<1>4. /\ periods \in Seq([live : BOOLEAN])
      /\ batches \in Seq([period : DOMAIN periods, regime : Regimes, live : BOOLEAN])
      /\ decls \in Seq([period : DOMAIN periods, cat : Categories, amount : Nat, live : BOOLEAN])
      /\ claims \in Seq([decl : DOMAIN decls, period : DOMAIN periods, amount : Nat,
                         status : Statuses, live : BOOLEAN])
      /\ tds = Cardinality(Live(batches))
  BY <1>2, <1>3 DEF Sound
<1>5. /\ DOMAIN periods \subseteq Nat /\ DOMAIN decls \subseteq Nat
      /\ tds \in Nat
  <2>1. DOMAIN periods = 1 .. Len(periods) /\ DOMAIN decls = 1 .. Len(decls)
    BY <1>4
  <2>2. Live(batches) \in SUBSET DOMAIN batches
    BY DEF Live
  <2>3. IsFiniteSet(Live(batches))
    BY <1>4, <2>2, RowsFinite
  <2>. QED
    BY <1>4, <2>1, <2>3, FS_CardinalityType
<1>6. /\ batches \in [1 .. Len(batches) -> [period : DOMAIN periods, regime : Regimes, live : BOOLEAN]]
      /\ decls \in [1 .. Len(decls) -> [period : DOMAIN periods, cat : Categories, amount : Nat, live : BOOLEAN]]
      /\ claims \in [1 .. Len(claims) -> [decl : DOMAIN decls, period : DOMAIN periods, amount : Nat,
                         status : Statuses, live : BOOLEAN]]
      /\ Len(batches) \in Nat /\ Len(decls) \in Nat /\ Len(claims) \in Nat
  BY <1>4, RowsAre
<1>7. TablesOK
  <2>1. batches \in Seq(Batch) /\ \A b \in DOMAIN batches : batches[b].period \in DOMAIN periods
    <3>1. \A b \in 1 .. Len(batches) : batches[b] \in Batch /\ batches[b].period \in DOMAIN periods
      BY <1>5, <1>6 DEF Batch
    <3>. QED
      BY <1>6, <3>1
  <2>2. decls \in Seq(Decl) /\ \A d \in DOMAIN decls : decls[d].period \in DOMAIN periods
    <3>1. \A d \in 1 .. Len(decls) : decls[d] \in Decl /\ decls[d].period \in DOMAIN periods
      BY <1>5, <1>6 DEF Decl
    <3>. QED
      BY <1>6, <3>1
  <2>3. claims \in Seq(Claim) /\ \A c \in DOMAIN claims : claims[c].decl \in DOMAIN decls
    <3>1. \A c \in 1 .. Len(claims) : claims[c] \in Claim /\ claims[c].decl \in DOMAIN decls
      BY <1>5, <1>6 DEF Claim
    <3>. QED
      BY <1>6, <3>1
  <2>. QED
    BY <1>4, <1>5, <2>1, <2>2, <2>3 DEF TablesOK, Period
<1>. QED
  BY <1>1, <1>7, IdleType DEF Init, TypeOK

\* No row goes, and none moves to another period, category or declaration.
Kept ==
  /\ DOMAIN periods \subseteq DOMAIN periods'
  /\ DOMAIN batches \subseteq DOMAIN batches'
  /\ DOMAIN decls \subseteq DOMAIN decls' /\ DOMAIN claims \subseteq DOMAIN claims'
  /\ \A b \in DOMAIN batches : batches'[b].period = batches[b].period
  /\ \A d \in DOMAIN decls : decls'[d].period = decls[d].period /\ decls'[d].cat = decls[d].cat
  /\ \A c \in DOMAIN claims : claims'[c].decl = claims[c].decl

\* What the proofs use of the types.
LEMMA TypeFacts ==
  ASSUME TypeOK
  PROVE  /\ \A b \in DOMAIN batches : batches[b] \in Batch /\ batches[b].period \in DOMAIN periods
         /\ \A d \in DOMAIN decls : decls[d] \in Decl /\ decls[d].period \in DOMAIN periods
         /\ \A c \in DOMAIN claims : claims[c] \in Claim /\ claims[c].decl \in DOMAIN decls
         /\ \A p \in DOMAIN periods : periods[p] \in Period
         /\ \A w \in Workers : work[w] \in Call /\ CallOK(work[w])
         /\ DOMAIN periods \subseteq Nat \ {0} /\ DOMAIN batches \subseteq Nat \ {0}
         /\ DOMAIN decls \subseteq Nat \ {0} /\ DOMAIN claims \subseteq Nat \ {0}
<1>1. /\ periods \in Seq(Period) /\ batches \in Seq(Batch)
      /\ decls \in Seq(Decl) /\ claims \in Seq(Claim)
  BY DEF TypeOK, TablesOK
<1>. QED
  BY <1>1, RowsAre DEF TypeOK, TablesOK

\* update_claim rewrites one row of the table of claims.
LEMMA ClaimRewritten ==
  ASSUME TypeOK, NEW w \in Workers, EditClaim(w) \/ DropClaim(w) \/ JudgeClaim(w)
  PROVE  LET c == work[w].id
         IN  /\ work[w].at \in {"edit", "drop", "judge"} /\ c \in DOMAIN claims
             /\ claims' \in Seq(Claim) /\ DOMAIN claims' = DOMAIN claims
             /\ claims' = [claims EXCEPT ![c] = claims'[c]]
             /\ \A x \in DOMAIN claims : x # c => claims'[x] = claims[x]
             /\ claims'[c] \in Claim /\ claims'[c].decl = claims[c].decl
             /\ claims'[c].live => claims[c].live
             /\ work[w].at = "edit" => claims'[c].amount = work[w].amount
             /\ work[w].at # "edit" => claims'[c].amount = claims[c].amount
             /\ revived' = revived \cup {d \in {claims[c].decl} :
                             claims[c].status \notin Standing /\ claims'[c].status \in Standing}
             /\ fresh' = fresh \cap {w} /\ work' = [work EXCEPT ![w] = Idle]
             /\ raced' = raced \cup {d \in {claims[c].decl} : w \notin fresh}
             /\ UNCHANGED <<periods, batches, tds, decls, calls, faults, misnamed, doubled>>
<1>. DEFINE c == work[w].id
<1>1. /\ work[w].at \in {"edit", "drop", "judge"} /\ c \in DOMAIN claims
      /\ work[w] \in Call /\ claims \in Seq(Claim) /\ claims[c] \in Claim
  BY TypeFacts DEF EditClaim, DropClaim, JudgeClaim, Rewrite, TypeOK, TablesOK, CallOK
<1>2. PICK row \in Claim : /\ claims' = [claims EXCEPT ![c] = row]
                           /\ row.decl = claims[c].decl /\ (row.live => claims[c].live)
                           /\ work[w].at = "edit" => row.amount = work[w].amount
                           /\ work[w].at # "edit" => row.amount = claims[c].amount
  <2>1. CASE EditClaim(w)
    <3>. DEFINE row == [claims[c] EXCEPT !.amount = work[w].amount, !.status = "Under Review"]
    <3>1. row \in Claim /\ row.decl = claims[c].decl /\ row.live = claims[c].live /\ row.amount = work[w].amount
      BY <1>1 DEF Claim, Call, Statuses
    <3>. QED
      BY <2>1, <3>1 DEF EditClaim, Rewrite
  <2>2. CASE DropClaim(w)
    <3>. DEFINE row == [claims[c] EXCEPT !.live = FALSE]
    <3>1. row \in Claim /\ row.decl = claims[c].decl /\ ~ row.live /\ row.amount = claims[c].amount
      BY <1>1 DEF Claim
    <3>. QED
      BY <2>2, <3>1 DEF DropClaim, Rewrite
  <2>3. CASE JudgeClaim(w)
    <3>. DEFINE row == [claims[c] EXCEPT !.status = work[w].status]
    <3>1. row \in Claim /\ row.decl = claims[c].decl /\ row.live = claims[c].live /\ row.amount = claims[c].amount
      BY <1>1 DEF Claim, Call
    <3>. QED
      BY <2>3, <3>1 DEF JudgeClaim, Rewrite
  <2>. QED
    BY <2>1, <2>2, <2>3
<1>3. /\ claims' \in Seq(Claim) /\ DOMAIN claims' = DOMAIN claims
      /\ \A x \in DOMAIN claims : claims'[x] = IF x = c THEN row ELSE claims[x]
  BY <1>1, <1>2, RowChanged
<1>4. claims'[c] = row
  BY <1>1, <1>3
<1>5. /\ fresh' = fresh \cap {w} /\ work' = [work EXCEPT ![w] = Idle]
      /\ raced' = raced \cup {d \in {claims[c].decl} : w \notin fresh}
      /\ revived' = revived \cup {d \in {claims[c].decl} :
                             claims[c].status \notin Standing /\ claims'[c].status \in Standing}
      /\ UNCHANGED <<periods, batches, tds, decls, calls, faults, misnamed, doubled>>
  BY DEF EditClaim, DropClaim, JudgeClaim, Rewrite, Wrote, Turn
<1>. QED
  BY <1>1, <1>2, <1>3, <1>4, <1>5

\* The steps that write nothing to the tables.
Asks(w) == \/ AskDeclare(w) \/ AskAmend(w) \/ AskWithdraw(w) \/ AskClaim(w) \/ AskEdit(w)
           \/ AskDrop(w) \/ AskJudge(w) \/ AskRemoveBatch(w) \/ AskRemovePeriod(w)

LEMMA Quiet ==
  ASSUME NEW w, Asks(w) \/ FindDeclaration(w) \/ Undo(w) \/ Die(w)
  PROVE  UNCHANGED <<periods, batches, tds, decls, claims, revived, misnamed, doubled>>
BY DEF Asks, AskDeclare, AskAmend, AskWithdraw, AskClaim, AskEdit, AskDrop, AskJudge,
       AskRemoveBatch, AskRemovePeriod, Ask, FindDeclaration, Undo, Die, tables, history

\* update_finance_data changes nothing but regimes.
LEMMA RegimeChosen ==
  ASSUME TypeOK, NEW r \in Regimes, ChooseRegime(r)
  PROVE  /\ batches' \in Seq(Batch) /\ DOMAIN batches' = DOMAIN batches
         /\ \A b \in DOMAIN batches : /\ batches'[b].period = batches[b].period
                                      /\ batches'[b].live = batches[b].live
                                      /\ batches'[b].regime = batches[b].regime \/ batches'[b].regime # "Unset"
<1>1. \A b \in DOMAIN batches :
        /\ batches[b] \in Batch
        /\ batches'[b] = IF batches[b].live /\ r # "Unset" THEN [batches[b] EXCEPT !.regime = r] ELSE batches[b]
  BY TypeFacts DEF ChooseRegime
<1>2. \A b \in DOMAIN batches :
        /\ batches'[b] \in Batch /\ batches'[b].period = batches[b].period
        /\ batches'[b].live = batches[b].live
        /\ batches'[b].regime = batches[b].regime \/ batches'[b].regime # "Unset"
  BY <1>1 DEF Batch
<1>3. batches' \in [DOMAIN batches -> Batch]
  BY <1>2 DEF ChooseRegime
<1>. QED
  BY <1>2, <1>3, RowsChanged DEF TypeOK, TablesOK

LEMMA TablesStep == TypeOK /\ [Next]_vars => TablesOK' /\ Kept
<1>1. SUFFICES ASSUME TypeOK, [Next]_vars PROVE TablesOK' /\ Kept
  OBVIOUS
<1>. USE <1>1
<1>2. /\ periods \in Seq(Period) /\ batches \in Seq(Batch) /\ tds \in Nat
      /\ decls \in Seq(Decl) /\ claims \in Seq(Claim)
  BY DEF TypeOK, TablesOK
<1>3. CASE UNCHANGED tables
  BY <1>3 DEF TypeOK, TablesOK, Kept, tables
<1>4. ASSUME NEW w \in Workers, InsertDeclaration(w)
      PROVE  TablesOK' /\ Kept
  <2>. DEFINE row == [period |-> work[w].period, cat |-> work[w].cat,
                      amount |-> work[w].amount, live |-> TRUE]
  <2>1. row \in Decl /\ row.period \in DOMAIN periods /\ work[w].regime \in Regimes
    BY <1>4, TypeFacts DEF InsertDeclaration, CallOK, Call, Decl
  <2>2. decls' = Append(decls, row) /\ ChooseRegime(work[w].regime) /\ UNCHANGED <<periods, tds, claims>>
    BY <1>4 DEF InsertDeclaration
  <2>. HIDE DEF row
  <2>3. /\ decls' \in Seq(Decl) /\ DOMAIN decls' = DOMAIN decls \cup {Len(decls) + 1}
        /\ \A d \in DOMAIN decls : decls'[d] = decls[d]
        /\ decls'[Len(decls) + 1] = row
    BY <1>2, <2>1, <2>2, RowAdded
  <2>. QED
    BY <1>2, <2>1, <2>2, <2>3, RegimeChosen, TypeFacts DEF TablesOK, Kept
<1>5. ASSUME NEW w \in Workers, AddToDeclaration(w)
      PROVE  TablesOK' /\ Kept
  <2>1. /\ \A d \in DOMAIN decls :
             /\ decls[d] \in Decl /\ work[w].amount \in Nat
             /\ decls'[d] = IF d \in Same(w) THEN [decls[d] EXCEPT !.amount = @ + work[w].amount] ELSE decls[d]
        /\ DOMAIN decls' = DOMAIN decls /\ work[w].regime \in Regimes
    BY <1>5, TypeFacts DEF AddToDeclaration, Call
  <2>2. \A d \in DOMAIN decls : /\ decls'[d] \in Decl /\ decls'[d].period = decls[d].period
                                /\ decls'[d].cat = decls[d].cat
    BY <2>1 DEF Decl
  <2>3. decls' \in Seq(Decl)
    <3>1. decls' \in [DOMAIN decls -> Decl]
      BY <1>5, <2>2 DEF AddToDeclaration
    <3>. QED
      BY <1>2, <3>1, RowsChanged
  <2>. QED
    BY <1>2, <1>5, <2>1, <2>2, <2>3, RegimeChosen, TypeFacts DEF TablesOK, Kept, AddToDeclaration
<1>6. ASSUME NEW w \in Workers, AmendDeclaration(w)
      PROVE  TablesOK' /\ Kept
  <2>. DEFINE d == work[w].id
              row == [decls[d] EXCEPT !.amount = work[w].amount]
  <2>1. d \in DOMAIN decls /\ decls[d] \in Decl /\ work[w].amount \in Nat
    BY <1>6, TypeFacts DEF AmendDeclaration, CallOK, Call
  <2>2. row \in Decl /\ row.period = decls[d].period /\ row.cat = decls[d].cat
    BY <2>1 DEF Decl
  <2>3. decls' = [decls EXCEPT ![d] = row] /\ UNCHANGED <<periods, batches, tds, claims>>
    BY <1>6 DEF AmendDeclaration
  <2>. HIDE DEF d, row
  <2>4. /\ decls' \in Seq(Decl) /\ DOMAIN decls' = DOMAIN decls
        /\ \A x \in DOMAIN decls : decls'[x] = IF x = d THEN row ELSE decls[x]
    BY <1>2, <2>1, <2>2, <2>3, RowChanged
  <2>. QED
    BY <1>2, <2>2, <2>3, <2>4, TypeFacts DEF TablesOK, Kept
<1>7. ASSUME NEW w \in Workers, WithdrawDeclaration(w)
      PROVE  TablesOK' /\ Kept
  <2>. DEFINE d == work[w].id
              row == [decls[d] EXCEPT !.live = FALSE]
              b == FirstOf(BatchesOf(work[w].period))
              gone == [batches[b] EXCEPT !.regime = "Unset"]
  <2>1. d \in DOMAIN decls /\ decls[d] \in Decl
    BY <1>7, TypeFacts DEF WithdrawDeclaration, CallOK
  <2>2. row \in Decl /\ row.period = decls[d].period /\ row.cat = decls[d].cat
    BY <2>1 DEF Decl
  <2>3. decls' = [decls EXCEPT ![d] = row] /\ claims' = ClaimsLeft(d) /\ UNCHANGED <<periods, tds>>
    BY <1>7 DEF WithdrawDeclaration
  <2>4. /\ decls' \in Seq(Decl) /\ DOMAIN decls' = DOMAIN decls
        /\ \A x \in DOMAIN decls : decls'[x] = IF x = d THEN row ELSE decls[x]
    <3>. HIDE DEF d, row
    <3>. QED
      BY <1>2, <2>1, <2>2, <2>3, RowChanged
  <2>5. /\ claims' \in Seq(Claim) /\ DOMAIN claims' = DOMAIN claims
        /\ \A c \in DOMAIN claims : claims'[c].decl = claims[c].decl
    <3>1. \A c \in DOMAIN claims : claims'[c] \in Claim /\ claims'[c].decl = claims[c].decl
      BY <2>3, TypeFacts DEF ClaimsLeft, Claim
    <3>2. claims' \in [DOMAIN claims -> Claim]
      BY <2>3, <3>1 DEF ClaimsLeft
    <3>. QED
      BY <1>2, <3>1, <3>2, RowsChanged
  <2>6. /\ batches' \in Seq(Batch) /\ DOMAIN batches' = DOMAIN batches
        /\ \A x \in DOMAIN batches : batches'[x].period = batches[x].period
    <3>1. CASE ~ work[w].last
      BY <1>2, <1>7, <3>1 DEF WithdrawDeclaration
    <3>2. CASE work[w].last
      <4>1. b # 0 /\ batches' = [batches EXCEPT ![b] = gone]
        BY <1>7, <3>2 DEF WithdrawDeclaration
      <4>2. BatchesOf(work[w].period) \in SUBSET DOMAIN batches
        BY DEF BatchesOf, Live
      <4>3. b \in DOMAIN batches
        <5>. DEFINE S == BatchesOf(work[w].period)
        <5>1. FirstOf(S) # 0 /\ S \in SUBSET DOMAIN batches
          BY <4>1, <4>2
        <5>2. FirstOf(S) \in S
          <6>. HIDE DEF S
          <6>. QED
            BY <1>2, <5>1, FirstAndLast
        <5>. QED
          BY <5>1, <5>2
      <4>4. gone \in Batch /\ gone.period = batches[b].period
        BY <4>3, TypeFacts DEF Batch, Regimes
      <4>. HIDE DEF b, gone
      <4>5. /\ batches' \in Seq(Batch) /\ DOMAIN batches' = DOMAIN batches
            /\ \A x \in DOMAIN batches : batches'[x] = IF x = b THEN gone ELSE batches[x]
        BY <1>2, <4>1, <4>3, <4>4, RowChanged
      <4>. QED
        BY <4>4, <4>5
    <3>. QED
      BY <3>1, <3>2
  <2>. HIDE DEF d, row, b, gone
  <2>. QED
    BY <1>2, <2>2, <2>3, <2>4, <2>5, <2>6, TypeFacts DEF TablesOK, Kept
<1>8. ASSUME NEW w \in Workers, AddClaim(w)
      PROVE  TablesOK' /\ Kept
  <2>. DEFINE row == [decl |-> work[w].id, period |-> work[w].period, amount |-> work[w].amount,
                      status |-> "Under Review", live |-> TRUE]
  <2>1. row \in Claim /\ row.decl \in DOMAIN decls
    BY <1>8, TypeFacts DEF AddClaim, CallOK, Call, Claim, Statuses
  <2>2. claims' = Append(claims, row) /\ UNCHANGED <<periods, batches, tds, decls>>
    BY <1>8 DEF AddClaim
  <2>. HIDE DEF row
  <2>3. /\ claims' \in Seq(Claim) /\ DOMAIN claims' = DOMAIN claims \cup {Len(claims) + 1}
        /\ \A c \in DOMAIN claims : claims'[c] = claims[c]
        /\ claims'[Len(claims) + 1] = row
    BY <1>2, <2>1, <2>2, RowAdded
  <2>. QED
    BY <1>2, <2>1, <2>2, <2>3, TypeFacts DEF TablesOK, Kept
<1>9. ASSUME NEW w \in Workers, EditClaim(w) \/ DropClaim(w) \/ JudgeClaim(w)
      PROVE  TablesOK' /\ Kept
  BY <1>2, <1>9, ClaimRewritten, TypeFacts DEF TablesOK, Kept
<1>10. ASSUME NEW w \in Workers, Initiate(w)
       PROVE  TablesOK' /\ Kept
  <2>1. PICK initiated \in BOOLEAN, chosen \in BOOLEAN :
          LET p == IF initiated THEN FirstOf(Live(periods)) ELSE Len(periods) + 1
          IN  /\ p # 0
              /\ periods' = IF initiated THEN periods ELSE Append(periods, [live |-> TRUE])
              /\ batches' = IF chosen THEN Append(batches, NewBatch(p)) ELSE batches
              /\ tds' = IF chosen THEN TdsOfBatch(tds) ELSE tds
              /\ UNCHANGED <<decls, claims>>
    BY <1>10 DEF Initiate
  <2>. DEFINE p == IF initiated THEN FirstOf(Live(periods)) ELSE Len(periods) + 1
  <2>2. /\ periods' \in Seq(Period) /\ DOMAIN periods \subseteq DOMAIN periods'
        /\ p \in DOMAIN periods' /\ p \in Nat
    <3>1. CASE initiated
      <4>1. Live(periods) \in SUBSET DOMAIN periods
        BY DEF Live
      <4>. QED
        BY <1>2, <2>1, <3>1, <4>1, RowsFinite, Extremes, TypeFacts
    <3>2. CASE ~ initiated
      <4>1. [live |-> TRUE] \in Period
        BY DEF Period
      <4>2. periods' = Append(periods, [live |-> TRUE])
        BY <2>1, <3>2
      <4>. QED
        BY <1>2, <3>2, <4>1, <4>2, RowAdded
    <3>. QED
      BY <3>1, <3>2
  <2>3. NewBatch(p) \in Batch /\ NewBatch(p).period = p
    BY <2>2 DEF NewBatch, Batch, Regimes
  <2>4. batches' = IF chosen THEN Append(batches, NewBatch(p)) ELSE batches
    BY <2>1
  <2>. HIDE DEF p
  <2>5. /\ batches' \in Seq(Batch) /\ DOMAIN batches \subseteq DOMAIN batches'
        /\ \A b \in DOMAIN batches : batches'[b] = batches[b]
        /\ \A b \in DOMAIN batches' : b \in DOMAIN batches \/ batches'[b].period = p
    BY <1>2, <2>3, <2>4, RowAdded
  <2>6. tds' \in Nat
    BY <1>2, <2>1 DEF TdsOfBatch
  <2>. QED
    BY <1>2, <2>1, <2>2, <2>5, <2>6, TypeFacts DEF TablesOK, Kept
<1>11. ASSUME NEW w \in Workers, AddBatch(w)
       PROVE  TablesOK' /\ Kept
  <2>1. PICK p \in Live(periods) :
          /\ batches' = IF BatchesOf(p) = {} THEN Append(batches, NewBatch(p))
                        ELSE [b \in DOMAIN batches |-> IF b \in BatchesOf(p) THEN NewBatch(p) ELSE batches[b]]
          /\ tds' = TdsOfBatch(tds) /\ UNCHANGED <<periods, decls, claims>>
    BY <1>11 DEF AddBatch
  <2>2. p \in DOMAIN periods /\ NewBatch(p) \in Batch /\ NewBatch(p).period = p
    BY <2>1, TypeFacts DEF NewBatch, Batch, Regimes, Live
  <2>3. /\ batches' \in Seq(Batch) /\ DOMAIN batches \subseteq DOMAIN batches'
        /\ \A b \in DOMAIN batches : batches'[b].period = batches[b].period
        /\ \A b \in DOMAIN batches' : b \in DOMAIN batches \/ batches'[b].period = p
    <3>1. CASE BatchesOf(p) = {}
      BY <1>2, <2>1, <2>2, <3>1, RowAdded
    <3>2. CASE BatchesOf(p) # {}
      <4>1. batches' \in [DOMAIN batches -> Batch] /\ \A b \in DOMAIN batches : batches'[b].period = batches[b].period
        BY <2>1, <2>2, <3>2, TypeFacts DEF BatchesOf
      <4>. QED
        BY <1>2, <4>1, RowsChanged
    <3>. QED
      BY <3>1, <3>2
  <2>4. tds' \in Nat
    BY <1>2, <2>1 DEF TdsOfBatch
  <2>. QED
    BY <1>2, <2>1, <2>2, <2>3, <2>4, TypeFacts DEF TablesOK, Kept
<1>12. ASSUME NEW w \in Workers, RemoveBatch(w)
       PROVE  TablesOK' /\ Kept
  <2>. DEFINE b == work[w].id
              row == [batches[b] EXCEPT !.live = FALSE]
  <2>1. b \in DOMAIN batches /\ batches[b] \in Batch
    BY <1>12, TypeFacts DEF RemoveBatch, CallOK
  <2>2. row \in Batch /\ row.period = batches[b].period
    BY <2>1 DEF Batch
  <2>3. batches' = [batches EXCEPT ![b] = row] /\ UNCHANGED <<periods, tds, decls, claims>>
    BY <1>12 DEF RemoveBatch
  <2>. HIDE DEF b, row
  <2>4. /\ batches' \in Seq(Batch) /\ DOMAIN batches' = DOMAIN batches
        /\ \A x \in DOMAIN batches : batches'[x] = IF x = b THEN row ELSE batches[x]
    BY <1>2, <2>1, <2>2, <2>3, RowChanged
  <2>. QED
    BY <1>2, <2>2, <2>3, <2>4, TypeFacts DEF TablesOK, Kept
<1>13. ASSUME NEW w \in Workers, RemovePeriod(w)
       PROVE  TablesOK' /\ Kept
  <2>. DEFINE p == work[w].period
              row == [periods[p] EXCEPT !.live = FALSE]
  <2>1. p \in DOMAIN periods /\ periods[p] \in Period
    BY <1>13, TypeFacts DEF RemovePeriod, CallOK
  <2>2. row \in Period
    BY <2>1 DEF Period
  <2>3. periods' = [periods EXCEPT ![p] = row] /\ UNCHANGED <<batches, tds, decls, claims>>
    BY <1>13 DEF RemovePeriod
  <2>. HIDE DEF p, row
  <2>4. periods' \in Seq(Period) /\ DOMAIN periods' = DOMAIN periods
    BY <1>2, <2>1, <2>2, <2>3, RowChanged
  <2>. QED
    BY <1>2, <2>3, <2>4, TypeFacts DEF TablesOK, Kept
<1>14. ASSUME NEW w \in Workers, RemoveBatches(w)
       PROVE  TablesOK' /\ Kept
  <2>1. \A b \in DOMAIN batches : batches'[b] \in Batch /\ batches'[b].period = batches[b].period
    BY <1>14, TypeFacts DEF RemoveBatches, Batch
  <2>2. batches' \in [DOMAIN batches -> Batch] /\ UNCHANGED <<periods, tds, decls, claims>>
    BY <1>14, <2>1 DEF RemoveBatches
  <2>3. batches' \in Seq(Batch) /\ DOMAIN batches' = DOMAIN batches
    BY <1>2, <2>2, RowsChanged
  <2>. QED
    BY <1>2, <2>1, <2>2, <2>3, TypeFacts DEF TablesOK, Kept
<1>15. ASSUME NEW w \in Workers, RemoveTds(w)
       PROVE  TablesOK' /\ Kept
  BY <1>2, <1>15 DEF RemoveTds, TypeOK, TablesOK, Kept
<1>16. ASSUME NEW w \in Workers, Asks(w) \/ FindDeclaration(w) \/ Undo(w) \/ Die(w)
       PROVE  UNCHANGED tables
  BY <1>16, Quiet DEF tables
<1>17. CASE UNCHANGED vars
  BY <1>3, <1>17 DEF vars
<1>. QED
  BY <1>3, <1>4, <1>5, <1>6, <1>7, <1>8, <1>9, <1>10, <1>11, <1>12, <1>13, <1>14, <1>15,
     <1>16, <1>17 DEF Next, Asks

\* A step of one call, to a call that is well typed.
LEMMA OneCall ==
  ASSUME TypeOK, Kept, NEW w \in Workers, NEW now \in Call, CallOK(now), work' = [work EXCEPT ![w] = now]
  PROVE  /\ work' \in [Workers -> Call] /\ \A v \in Workers : CallOK(work[v])'
         /\ \A v \in Workers : work'[v] = IF v = w THEN now ELSE work[v]
<1>1. work \in [Workers -> Call] /\ \A v \in Workers : CallOK(work[v])
  BY DEF TypeOK
<1>2. work' \in [Workers -> Call] /\ \A v \in Workers : work'[v] = IF v = w THEN now ELSE work[v]
  BY <1>1
<1>3. ASSUME NEW v \in Workers PROVE CallOK(work[v])'
  <2>1. CASE v = w
    BY <1>1, <1>2, <2>1 DEF CallOK, Kept
  <2>2. CASE v # w
    <3>1. work'[v] = work[v] /\ CallOK(work[v])
      BY <1>1, <1>2, <2>2
    <3>. QED
      BY <3>1 DEF CallOK, Kept
  <2>. QED
    BY <2>1, <2>2
<1>. QED
  BY <1>2, <1>3

LEMMA Truth ==
  ASSUME NEW x, NEW S
  PROVE  \E b \in BOOLEAN : b = (x \in S)
<1>1. (x \in S) \in BOOLEAN
  OBVIOUS
<1>. QED
  BY <1>1

\* What a call asks for is of its type.
LEMMA Asked ==
  ASSUME TypeOK, NEW w \in Workers, Asks(w)
  PROVE  /\ work'[w] \in Call /\ CallOK(work'[w])
         /\ work' = [work EXCEPT ![w] = work'[w]]
         /\ fresh' = fresh \cup {w} /\ calls' = calls + 1
         /\ UNCHANGED <<faults, raced>>
<1>1. /\ \A p \in DOMAIN periods : p \in Nat
      /\ \A d \in DOMAIN decls : d \in Nat /\ decls[d] \in Decl /\ decls[d].period \in DOMAIN periods
      /\ \A c \in DOMAIN claims : c \in Nat
      /\ \A b \in DOMAIN batches : b \in Nat /\ batches[b].period \in DOMAIN periods
  BY TypeFacts
<1>2. ASSUME NEW now \in Call, CallOK(now), Ask(w, now)
      PROVE  /\ work'[w] \in Call /\ CallOK(work'[w])
             /\ work' = [work EXCEPT ![w] = work'[w]]
             /\ fresh' = fresh \cup {w} /\ calls' = calls + 1
             /\ UNCHANGED <<faults, raced>>
  BY <1>2 DEF Ask, TypeOK
<1>3. Limit \in [Categories -> Nat] /\ Amounts \subseteq Nat
  BY TaxConstants
<1>4. CASE AskDeclare(w)
  <2>. DEFINE p == LastOf(Live(periods))
  <2>1. PICK cat \in Categories, amount \in Amounts, regime \in Regimes :
          /\ MayDeclare(p, cat, amount)
          /\ Ask(w, [Idle EXCEPT !.at = "declare", !.period = p, !.cat = cat, !.amount = amount,
                                 !.regime = regime])
    BY <1>4 DEF AskDeclare
  <2>2. p \in DOMAIN periods
    <3>1. Live(periods) \in SUBSET DOMAIN periods /\ periods \in Seq(Period)
      BY DEF Live, TypeOK, TablesOK
    <3>2. p # 0
      BY <2>1 DEF MayDeclare
    <3>. QED
      BY <3>1, <3>2, FirstAndLast
  <2>3. amount <= Limit[cat] /\ amount \in Nat
    BY <1>3, <2>1 DEF MayDeclare
  <2>. HIDE DEF p
  <2>. DEFINE now == [Idle EXCEPT !.at = "declare", !.period = p, !.cat = cat, !.amount = amount,
                                  !.regime = regime]
  <2>4. now \in Call /\ CallOK(now)
    BY <1>1, <2>2, <2>3 DEF Idle, Call, CallOK, Steps, Regimes, Statuses
  <2>. QED
    BY <1>2, <2>1, <2>4
<1>5. CASE AskAmend(w)
  <2>1. PICK d \in Live(decls), cat \in Categories, amount \in Amounts :
          /\ amount \in 1 .. Limit[cat]
          /\ Ask(w, [Idle EXCEPT !.at = "amend", !.id = d, !.cat = cat, !.amount = amount])
    BY <1>5 DEF AskAmend
  <2>. DEFINE now == [Idle EXCEPT !.at = "amend", !.id = d, !.cat = cat, !.amount = amount]
  <2>2. d \in DOMAIN decls /\ amount \in Nat
    BY <1>1, <1>3, <2>1 DEF Live
  <2>3. amount <= Limit[cat]
    BY <1>3, <2>1, <2>2
  <2>4. now \in Call /\ CallOK(now)
    BY <1>1, <2>2, <2>3 DEF Idle, Call, CallOK, Steps, Regimes, Statuses
  <2>. QED
    BY <1>2, <2>1, <2>4
<1>6. CASE AskWithdraw(w)
  <2>1. PICK d \in Live(decls), last \in BOOLEAN :
          Ask(w, [Idle EXCEPT !.at = "withdraw", !.id = d, !.period = decls[d].period, !.last = last])
    BY <1>6 DEF AskWithdraw
  <2>. DEFINE now == [Idle EXCEPT !.at = "withdraw", !.id = d, !.period = decls[d].period, !.last = last]
  <2>2. d \in DOMAIN decls
    BY <2>1 DEF Live
  <2>3. now \in Call /\ CallOK(now)
    BY <1>1, <2>2 DEF Idle, Call, CallOK, Steps, Regimes, Statuses
  <2>. QED
    BY <1>2, <2>1, <2>3
<1>7. CASE AskClaim(w)
  <2>. DEFINE p == LastOf(Live(periods))
  <2>1. PICK d \in Live(decls), amount \in Amounts \cup {0} :
          Ask(w, [Idle EXCEPT !.at = "claim", !.id = d, !.period = p, !.amount = amount])
    BY <1>7 DEF AskClaim
  <2>2. d \in DOMAIN decls /\ amount \in Nat /\ p \in Nat
    <3>1. Live(periods) \in SUBSET DOMAIN periods /\ periods \in Seq(Period)
      BY DEF Live, TypeOK, TablesOK
    <3>2. p \in Nat
      BY <1>1, <3>1, FirstAndLast
    <3>. QED
      BY <1>3, <2>1, <3>2 DEF Live
  <2>. HIDE DEF p
  <2>. DEFINE now == [Idle EXCEPT !.at = "claim", !.id = d, !.period = p, !.amount = amount]
  <2>3. now \in Call /\ CallOK(now)
    BY <1>1, <2>2 DEF Idle, Call, CallOK, Steps, Regimes, Statuses
  <2>. QED
    BY <1>2, <2>1, <2>3
<1>8. CASE AskEdit(w)
  <2>1. PICK c \in Live(claims), amount \in Amounts :
          Ask(w, [Idle EXCEPT !.at = "edit", !.id = c, !.amount = amount])
    BY <1>8 DEF AskEdit
  <2>. DEFINE now == [Idle EXCEPT !.at = "edit", !.id = c, !.amount = amount]
  <2>2. c \in DOMAIN claims /\ amount \in Nat
    BY <1>3, <2>1 DEF Live
  <2>3. now \in Call /\ CallOK(now)
    BY <1>1, <2>2 DEF Idle, Call, CallOK, Steps, Regimes, Statuses
  <2>. QED
    BY <1>2, <2>1, <2>3
<1>9. CASE AskDrop(w)
  <2>1. PICK c \in Live(claims) : Ask(w, [Idle EXCEPT !.at = "drop", !.id = c])
    BY <1>9 DEF AskDrop
  <2>. DEFINE now == [Idle EXCEPT !.at = "drop", !.id = c]
  <2>2. c \in DOMAIN claims
    BY <2>1 DEF Live
  <2>3. now \in Call /\ CallOK(now)
    BY <1>1, <2>2 DEF Idle, Call, CallOK, Steps, Regimes, Statuses
  <2>. QED
    BY <1>2, <2>1, <2>3
<1>10. CASE AskJudge(w)
  <2>1. PICK c \in Live(claims), s \in Statuses :
          Ask(w, [Idle EXCEPT !.at = "judge", !.id = c, !.status = s])
    BY <1>10 DEF AskJudge
  <2>. DEFINE now == [Idle EXCEPT !.at = "judge", !.id = c, !.status = s]
  <2>2. c \in DOMAIN claims
    BY <2>1 DEF Live
  <2>3. now \in Call /\ CallOK(now)
    BY <1>1, <2>2 DEF Idle, Call, CallOK, Steps, Regimes, Statuses
  <2>. QED
    BY <1>2, <2>1, <2>3
<1>11. CASE AskRemoveBatch(w)
  <2>1. PICK b \in Live(batches) :
          Ask(w, [Idle EXCEPT !.at = "batch", !.id = b, !.period = batches[b].period,
                              !.last = batches[b].period \in Live(periods)])
    BY <1>11 DEF AskRemoveBatch
  <2>2. PICK last \in BOOLEAN : last = (batches[b].period \in Live(periods))
    BY Truth
  <2>. DEFINE now == [Idle EXCEPT !.at = "batch", !.id = b, !.period = batches[b].period, !.last = last]
  <2>3. b \in DOMAIN batches
    BY <2>1 DEF Live
  <2>4. now \in Call /\ CallOK(now)
    BY <1>1, <2>3 DEF Idle, Call, CallOK, Steps, Regimes, Statuses
  <2>5. Ask(w, now)
    BY <2>1, <2>2
  <2>. QED
    BY <1>2, <2>4, <2>5
<1>12. CASE AskRemovePeriod(w)
  <2>1. PICK p \in DOMAIN periods :
          Ask(w, [Idle EXCEPT !.at = "period", !.period = p, !.last = p \in Live(periods)])
    BY <1>12 DEF AskRemovePeriod
  <2>2. PICK last \in BOOLEAN : last = (p \in Live(periods))
    BY Truth
  <2>. DEFINE now == [Idle EXCEPT !.at = "period", !.period = p, !.last = last]
  <2>3. now \in Call /\ CallOK(now)
    BY <1>1, <2>1 DEF Idle, Call, CallOK, Steps, Regimes, Statuses
  <2>4. Ask(w, now)
    BY <2>1, <2>2
  <2>. QED
    BY <1>2, <2>3, <2>4
<1>. QED
  BY <1>4, <1>5, <1>6, <1>7, <1>8, <1>9, <1>10, <1>11, <1>12 DEF Asks

\* The steps that end or go on with a call.
LEMMA Moved ==
  ASSUME NEW w \in Workers,
         \/ FindDeclaration(w) \/ InsertDeclaration(w) \/ AddToDeclaration(w) \/ AmendDeclaration(w)
         \/ WithdrawDeclaration(w) \/ Undo(w) \/ AddClaim(w) \/ EditClaim(w) \/ DropClaim(w)
         \/ JudgeClaim(w) \/ RemoveBatch(w) \/ RemovePeriod(w) \/ RemoveBatches(w) \/ RemoveTds(w)
         \/ Die(w)
  PROVE  /\ calls' = calls
         /\ \/ work' = [work EXCEPT ![w] = Idle]
            \/ work[w].at = "declare" /\ work' = [work EXCEPT ![w] = [work[w] EXCEPT !.at = "insert"]]
            \/ work[w].at = "period" /\ work' = [work EXCEPT ![w] = [work[w] EXCEPT !.at = "batches"]]
            \/ /\ work[w].at \in {"batch", "batches"}
               /\ work' = [work EXCEPT ![w] = [work[w] EXCEPT !.at = "tds"]]
BY DEF FindDeclaration, InsertDeclaration, AddToDeclaration, AmendDeclaration, WithdrawDeclaration,
       Undo, AddClaim, EditClaim, DropClaim, JudgeClaim, Rewrite, RemoveBatch, RemovePeriod,
       RemoveBatches, RemoveTds, Die, Turn

\* Every step keeps the calls well typed.
LEMMA CallsStep ==
  ASSUME TypeOK, [Next]_vars
  PROVE  work' \in [Workers -> Call] /\ \A w \in Workers : CallOK(work[w])'
<1>. DEFINE CallsOK == work' \in [Workers -> Call] /\ \A w \in Workers : CallOK(work[w])'
<1>0. Kept
  BY TablesStep
<1>1. work \in [Workers -> Call] /\ \A w \in Workers : CallOK(work[w])
  BY DEF TypeOK
<1>2. ASSUME NEW w \in Workers, Asks(w) PROVE CallsOK
  <2>1. /\ work'[w] \in Call /\ CallOK(work'[w])
        /\ work' = [work EXCEPT ![w] = work'[w]]
    BY <1>2, Asked
  <2>2. PICK now : now = work'[w]
    OBVIOUS
  <2>3. now \in Call /\ CallOK(now) /\ work' = [work EXCEPT ![w] = now]
    BY <2>1, <2>2
  <2>. QED
    BY <1>0, <2>3, OneCall
<1>3. ASSUME NEW w \in Workers,
             \/ FindDeclaration(w) \/ InsertDeclaration(w) \/ AddToDeclaration(w) \/ AmendDeclaration(w)
             \/ WithdrawDeclaration(w) \/ Undo(w) \/ AddClaim(w) \/ EditClaim(w) \/ DropClaim(w)
             \/ JudgeClaim(w) \/ RemoveBatch(w) \/ RemovePeriod(w) \/ RemoveBatches(w) \/ RemoveTds(w)
             \/ Die(w)
      PROVE  CallsOK
  <2>1. PICK c \in Call : c = work[w] /\ CallOK(c)
    BY <1>1
  <2>2. PICK now : /\ work' = [work EXCEPT ![w] = now]
                   /\ \/ now = Idle
                      \/ c.at = "declare" /\ now = [c EXCEPT !.at = "insert"]
                      \/ c.at = "period" /\ now = [c EXCEPT !.at = "batches"]
                      \/ c.at \in {"batch", "batches"} /\ now = [c EXCEPT !.at = "tds"]
    BY <1>3, <2>1, Moved
  <2>3. now \in Call /\ CallOK(now)
    <3>1. CASE now = Idle
      BY <3>1, IdleType
    <3>2. CASE now # Idle
      <4>1. PICK s \in {"insert", "batches", "tds"} :
              /\ now = [c EXCEPT !.at = s]
              /\ s = "insert" => c.at = "declare"
              /\ s = "batches" => c.at = "period"
              /\ s = "tds" => c.at \in {"batch", "batches"}
        BY <2>2, <3>2
      <4>. QED
        BY <2>1, <4>1 DEF Call, CallOK, Steps
    <3>. QED
      BY <3>1, <3>2
  <2>. QED
    BY <1>0, <2>2, <2>3, OneCall
<1>4. CASE work' = work
  BY <1>0, <1>1, <1>4 DEF CallOK, Kept
<1>5. ASSUME NEW w \in Workers, Initiate(w) \/ AddBatch(w) PROVE work' = work
  BY <1>5 DEF Initiate, AddBatch
<1>6. UNCHANGED vars => work' = work
  BY DEF vars
<1>. QED
  BY <1>2, <1>3, <1>4, <1>5, <1>6 DEF Next, Asks

LEMMA CountsStep ==
  ASSUME TypeOK, [Next]_vars
  PROVE  /\ calls' \in Nat /\ faults' \in Nat /\ fresh' \subseteq Workers
         /\ raced' \subseteq {0} \cup DOMAIN decls' /\ revived' \subseteq DOMAIN decls' /\ doubled' \in BOOLEAN
         /\ misnamed' \subseteq DOMAIN decls'
<1>. DEFINE Histories == /\ calls' \in {calls, calls + 1} /\ faults' \in {faults, faults + 1}
                       /\ fresh' \subseteq Workers /\ doubled' \in BOOLEAN
                       /\ raced' \subseteq {0} \cup DOMAIN decls' /\ revived' \subseteq DOMAIN decls'
                         /\ misnamed' \subseteq DOMAIN decls'
<1>1. /\ calls \in Nat /\ faults \in Nat /\ fresh \subseteq Workers
      /\ raced \subseteq {0} \cup DOMAIN decls /\ revived \subseteq DOMAIN decls /\ doubled \in BOOLEAN
      /\ misnamed \subseteq DOMAIN decls
      /\ DOMAIN decls \subseteq DOMAIN decls' /\ decls \in Seq(Decl)
  BY TablesStep DEF TypeOK, Kept, TablesOK
<1>2. ASSUME NEW w \in Workers, Asks(w) PROVE Histories
  <2>1. fresh' = fresh \cup {w} /\ calls' = calls + 1 /\ UNCHANGED <<faults, raced, revived, misnamed, doubled>>
    BY <1>2, Asked, Quiet
  <2>. QED
    BY <1>1, <2>1
<1>3. ASSUME NEW w \in Workers, FindDeclaration(w) \/ Undo(w) \/ Die(w) PROVE Histories
  BY <1>1, <1>3 DEF FindDeclaration, Undo, Die, Turn, history, tables
<1>4. ASSUME NEW w \in Workers, InsertDeclaration(w) PROVE Histories
  <2>1. Len(decls) + 1 \in DOMAIN decls'
    <3>1. decls' = Append(decls, [period |-> work[w].period, cat |-> work[w].cat,
                             amount |-> work[w].amount, live |-> TRUE])
      BY <1>4 DEF InsertDeclaration
    <3>. QED
      BY <1>1, <3>1
  <2>. QED
    BY <1>1, <1>4, <2>1 DEF InsertDeclaration, Turn, Wrote
<1>5. ASSUME NEW w \in Workers, AddToDeclaration(w) PROVE Histories
  BY <1>1, <1>5 DEF AddToDeclaration, Turn, Same, Wrote
<1>6. ASSUME NEW w \in Workers, AmendDeclaration(w) \/ WithdrawDeclaration(w) \/ AddClaim(w) PROVE Histories
  <2>1. work[w].id \in DOMAIN decls
    BY <1>6, TypeFacts DEF AmendDeclaration, WithdrawDeclaration, AddClaim, CallOK
  <2>. QED
    BY <1>1, <1>6, <2>1 DEF AmendDeclaration, WithdrawDeclaration, AddClaim, Turn, Wrote
<1>7. ASSUME NEW w \in Workers, EditClaim(w) \/ DropClaim(w) \/ JudgeClaim(w) PROVE Histories
  <2>1. claims[work[w].id].decl \in DOMAIN decls
    BY <1>7, ClaimRewritten, TypeFacts
  <2>. QED
    BY <1>1, <1>7, <2>1, ClaimRewritten
<1>8. ASSUME NEW w \in Workers, Initiate(w) \/ AddBatch(w) PROVE Histories
  BY <1>1, <1>8 DEF Initiate, AddBatch, Wrote
<1>9. ASSUME NEW w \in Workers, RemoveBatch(w) \/ RemovePeriod(w) \/ RemoveBatches(w) \/ RemoveTds(w)
      PROVE  Histories
  <2>1. DeclsOf(work[w].period) \subseteq DOMAIN decls
    BY DEF DeclsOf, Live
  <2>. QED
    BY <1>1, <1>9, <2>1 DEF RemoveBatch, RemovePeriod, RemoveBatches, RemoveTds, Turn, Wrote
<1>10. UNCHANGED vars => Histories
  BY <1>1 DEF vars, history
<1>. HIDE DEF Histories
<1>11. Histories
  BY <1>2, <1>3, <1>4, <1>5, <1>6, <1>7, <1>8, <1>9, <1>10 DEF Next, Asks
<1>. QED
  BY <1>1, <1>11 DEF Histories

\* The types of the model: every row is of a period or a declaration there is, and so is every call.
THEOREM TypeCorrect == Spec => []TypeOK
<1>1. TypeOK /\ [Next]_vars => TypeOK'
  BY TablesStep, CallsStep, CountsStep DEF TypeOK
<1>. QED
  BY <1>1, TypeInit, PTL DEF Spec

----------------------------------------------------------------------------
(* The steps, by what they write. *)

Rests(w) == FindDeclaration(w) \/ Undo(w) \/ Die(w)

Employee(w) == \/ InsertDeclaration(w) \/ AddToDeclaration(w) \/ AmendDeclaration(w)
               \/ WithdrawDeclaration(w) \/ AddClaim(w) \/ EditClaim(w) \/ DropClaim(w) \/ JudgeClaim(w)

Accounts(w) == \/ Initiate(w) \/ AddBatch(w) \/ RemoveBatch(w)
               \/ RemovePeriod(w) \/ RemoveBatches(w) \/ RemoveTds(w)

Midway(w) == work[w].at \in {"tds", "batches"}

LEMMA StepKinds ==
  ASSUME [Next]_vars
  PROVE  UNCHANGED vars \/ \E w \in Workers : Asks(w) \/ Rests(w) \/ Employee(w) \/ Accounts(w)
BY DEF Next, Asks, Rests, Employee, Accounts

\* A call is asked for, rests or ends: nothing is written.
LEMMA QuietStep ==
  ASSUME TypeOK, NEW w \in Workers, Asks(w) \/ Rests(w)
  PROVE  /\ UNCHANGED <<periods, batches, tds, decls, claims, revived, misnamed, doubled>>
         /\ \A v \in Workers : v # w => work'[v] = work[v]
         /\ raced \subseteq raced' /\ (Midway(w) => 0 \in raced')
         /\ fresh' \subseteq fresh \cup {w} /\ work'[w].at \notin {"tds", "batches"}
<1>1. UNCHANGED <<periods, batches, tds, decls, claims, revived, misnamed, doubled>>
  BY Quiet DEF Rests
<1>2. CASE Asks(w)
  <2>1. work[w] = Idle
    BY <1>2 DEF Asks, AskDeclare, AskAmend, AskWithdraw, AskClaim, AskEdit, AskDrop, AskJudge,
       AskRemoveBatch, AskRemovePeriod, Ask
  <2>2. ~ Midway(w)
    BY <2>1, IdleType DEF Midway
  <2>. DEFINE Begun(c) == c.at \notin {"tds", "batches"}
  <2>3. Begun(work'[w])
    <3>1. ASSUME NEW now, Begun(now), Ask(w, now) PROVE Begun(work'[w])
      BY <3>1 DEF Ask, TypeOK
    <3>2. CASE AskDeclare(w)
      BY <3>1, <3>2 DEF AskDeclare, Idle
    <3>3. CASE AskAmend(w)
      BY <3>1, <3>3 DEF AskAmend, Idle
    <3>4. CASE AskWithdraw(w)
      BY <3>1, <3>4 DEF AskWithdraw, Idle
    <3>5. CASE AskClaim(w)
      BY <3>1, <3>5 DEF AskClaim, Idle
    <3>6. CASE AskEdit(w)
      BY <3>1, <3>6 DEF AskEdit, Idle
    <3>7. CASE AskDrop(w)
      BY <3>1, <3>7 DEF AskDrop, Idle
    <3>8. CASE AskJudge(w)
      BY <3>1, <3>8 DEF AskJudge, Idle
    <3>9. CASE AskRemoveBatch(w)
      BY <3>1, <3>9 DEF AskRemoveBatch, Idle
    <3>10. CASE AskRemovePeriod(w)
      BY <3>1, <3>10 DEF AskRemovePeriod, Idle
    <3>. QED
      BY <1>2, <3>2, <3>3, <3>4, <3>5, <3>6, <3>7, <3>8, <3>9, <3>10 DEF Asks
  <2>. QED
    BY <1>1, <1>2, <2>2, <2>3, Asked DEF TypeOK
<1>3. CASE Rests(w)
  <2>1. /\ fresh' = fresh /\ raced \subseteq raced' /\ (Midway(w) => 0 \in raced')
    BY <1>3 DEF Rests, FindDeclaration, Undo, Die, history, Turn, Midway
  <2>2. \/ work' = [work EXCEPT ![w] = Idle]
        \/ work[w].at = "declare" /\ work' = [work EXCEPT ![w] = [work[w] EXCEPT !.at = "insert"]]
    BY <1>3 DEF Rests, FindDeclaration, Undo, Die, Turn
  <2>3. work'[w].at \in {"idle", "insert"}
    <3>1. work[w] \in Call /\ work \in [Workers -> Call]
      BY DEF TypeOK
    <3>2. CASE work' = [work EXCEPT ![w] = Idle]
      BY <3>1, <3>2, IdleType
    <3>3. CASE work' = [work EXCEPT ![w] = [work[w] EXCEPT !.at = "insert"]]
      BY <3>1, <3>3 DEF Call
    <3>. QED
      BY <2>2, <3>2, <3>3
  <2>. QED
    BY <1>1, <2>1, <2>2, <2>3 DEF TypeOK
<1>. QED
  BY <1>2, <1>3

\* The employee's own writes, and the decisions on his claims.
LEMMA EmployeeStep ==
  ASSUME TypeOK, NEW w \in Workers, Employee(w)
  PROVE  /\ UNCHANGED <<periods, tds, doubled>>
         /\ Live(batches)' = Live(batches) /\ \A p : BatchesOf(p)' = BatchesOf(p)
         /\ work' = [work EXCEPT ![w] = Idle] /\ ~ Midway(w)
         /\ fresh' = fresh \cap {w} /\ raced \subseteq raced' /\ revived \subseteq revived'
<1>1. CASE EditClaim(w) \/ DropClaim(w) \/ JudgeClaim(w)
  BY <1>1, ClaimRewritten DEF Live, BatchesOf, Midway
<1>2. CASE InsertDeclaration(w) \/ AddToDeclaration(w)
  <2>1. ChooseRegime(work[w].regime) /\ work[w].regime \in Regimes
    BY <1>2, TypeFacts DEF InsertDeclaration, AddToDeclaration, Call
  <2>2. Live(batches)' = Live(batches) /\ \A p : BatchesOf(p)' = BatchesOf(p)
    BY <2>1, RegimeChosen DEF Live, BatchesOf
  <2>. QED
    BY <1>2, <2>2 DEF InsertDeclaration, AddToDeclaration, Wrote, Turn, Midway
<1>3. CASE AmendDeclaration(w) \/ AddClaim(w)
  BY <1>3 DEF AmendDeclaration, AddClaim, Live, BatchesOf, Midway, Wrote, Turn
<1>4. CASE WithdrawDeclaration(w)
  <2>. DEFINE b == FirstOf(BatchesOf(work[w].period))
  <2>1. batches' = IF work[w].last THEN [batches EXCEPT ![b].regime = "Unset"] ELSE batches
    BY <1>4 DEF WithdrawDeclaration
  <2>2. \A x \in DOMAIN batches : batches[x] \in Batch
    BY TypeFacts
  <2>. HIDE DEF b
  <2>3. /\ DOMAIN batches' = DOMAIN batches
        /\ \A x \in DOMAIN batches : batches'[x].live = batches[x].live /\ batches'[x].period = batches[x].period
    BY <2>1, <2>2 DEF Batch
  <2>4. Live(batches)' = Live(batches) /\ \A p : BatchesOf(p)' = BatchesOf(p)
    BY <2>3 DEF Live, BatchesOf
  <2>. QED
    BY <1>4, <2>4 DEF WithdrawDeclaration, Wrote, Turn, Midway
<1>. QED
  BY <1>1, <1>2, <1>3, <1>4 DEF Employee

\* The writes of accounts.
LEMMA AccountsStep ==
  ASSUME NEW w \in Workers, Accounts(w)
  PROVE  /\ UNCHANGED <<decls, claims, revived, misnamed, faults>>
         /\ fresh' = fresh \cap {w} /\ raced \subseteq raced'
         /\ \/ work[w] = Idle /\ work' = work
            \/ work' = [work EXCEPT ![w] = Idle]
            \/ work' = [work EXCEPT ![w] = [work[w] EXCEPT !.at = "tds"]]
            \/ work' = [work EXCEPT ![w] = [work[w] EXCEPT !.at = "batches"]]
BY DEF Accounts, Initiate, AddBatch, RemoveBatch, RemovePeriod, RemoveBatches, RemoveTds, Wrote, Turn

----------------------------------------------------------------------------
(* What a call has validated still holds when it writes, unless another    *)
(* call has committed since.                                               *)

Unrejected(d) == {c \in ClaimsOf(d) : claims[c].status # "Rejected"}

StillValid(c) ==
  /\ c.at \in {"declare", "insert"} =>
       c.period \in Live(periods) /\ MayDeclare(c.period, c.cat, c.amount)
  /\ c.at = "amend" => c.amount >= Total(claims, Counted(c.id))
  /\ c.at = "withdraw" => MayWithdraw(c.id, c.last)
  /\ c.at = "claim" => c.id \in Live(decls) /\ MayClaim(c.id, c.amount, Counted(c.id))
  /\ c.at = "edit" => /\ c.id \in Live(claims) /\ claims[c.id].status = "Under Review"
                      /\ MayClaim(claims[c.id].decl, c.amount, Unrejected(claims[c.id].decl) \ {c.id})
  /\ c.at = "drop" => claims[c.id].status = "Under Review"
  /\ c.at \in {"batch", "period"} => Undeclared(c.period) /\ c.last = (c.period \in Live(periods))
  /\ c.at = "batch" => c.id \in Live(batches)

FreshInv == \A w \in fresh : StillValid(work[w])

LEMMA IdleValid ==
  ASSUME NEW c, c = Idle \/ c.at \in {"tds", "batches"}
  PROVE  StillValid(c) /\ StillValid(c)'
<1>1. c.at \in {"idle", "tds", "batches"}
  BY IdleType
<1>. QED
  BY <1>1 DEF StillValid

LEMMA UnwrittenValid ==
  ASSUME UNCHANGED <<periods, batches, decls, claims>>, NEW c, StillValid(c)
  PROVE  StillValid(c)'
BY DEF StillValid, MayDeclare, MayWithdraw, MayClaim, Undeclared, Live, BatchesOf, DeclsOf, ClaimsOf,
       Counted, Unrejected

\* A call begins with what it has just validated.
LEMMA AskedValid ==
  ASSUME TypeOK, NEW w \in Workers, Asks(w)
  PROVE  StillValid(work'[w])
<1>1. ASSUME NEW now, StillValid(now), Ask(w, now)
      PROVE  StillValid(work'[w])
  BY <1>1 DEF Ask, TypeOK
<1>2. CASE AskDeclare(w)
  <2>. DEFINE p == LastOf(Live(periods))
  <2>1. PICK cat \in Categories, amount \in Amounts, regime \in Regimes :
          /\ MayDeclare(p, cat, amount)
          /\ Ask(w, [Idle EXCEPT !.at = "declare", !.period = p, !.cat = cat, !.amount = amount,
                                 !.regime = regime])
    BY <1>2 DEF AskDeclare
  <2>2. p \in Live(periods)
    <3>1. Live(periods) \in SUBSET DOMAIN periods /\ periods \in Seq(Period)
      BY DEF Live, TypeOK, TablesOK
    <3>2. p # 0
      BY <2>1 DEF MayDeclare
    <3>. QED
      BY <3>1, <3>2, FirstAndLast
  <2>. HIDE DEF p
  <2>. QED
    BY <1>1, <2>1, <2>2 DEF StillValid, Idle
<1>3. CASE AskAmend(w)
  BY <1>1, <1>3 DEF AskAmend, StillValid, Idle
<1>4. CASE AskWithdraw(w)
  BY <1>1, <1>4 DEF AskWithdraw, StillValid, Idle
<1>5. CASE AskClaim(w)
  BY <1>1, <1>5 DEF AskClaim, StillValid, Idle
<1>6. CASE AskEdit(w)
  <2>1. PICK c \in Live(claims), amount \in Amounts :
          /\ claims[c].status = "Under Review"
          /\ MayClaim(claims[c].decl, amount,
                      {x \in ClaimsOf(claims[c].decl) \ {c} : claims[x].status # "Rejected"})
          /\ Ask(w, [Idle EXCEPT !.at = "edit", !.id = c, !.amount = amount])
    BY <1>6 DEF AskEdit
  <2>2. {x \in ClaimsOf(claims[c].decl) \ {c} : claims[x].status # "Rejected"}
          = Unrejected(claims[c].decl) \ {c}
    BY DEF Unrejected
  <2>3. MayClaim(claims[c].decl, amount, Unrejected(claims[c].decl) \ {c})
    BY <2>1, <2>2
  <2>. QED
    BY <1>1, <2>1, <2>3 DEF StillValid, Idle
<1>7. CASE AskDrop(w)
  BY <1>1, <1>7 DEF AskDrop, StillValid, Idle
<1>8. CASE AskJudge(w)
  BY <1>1, <1>8 DEF AskJudge, StillValid, Idle
<1>9. CASE AskRemoveBatch(w)
  BY <1>1, <1>9 DEF AskRemoveBatch, StillValid, Idle
<1>10. CASE AskRemovePeriod(w)
  BY <1>1, <1>10 DEF AskRemovePeriod, StillValid, Idle
<1>. QED
  BY <1>2, <1>3, <1>4, <1>5, <1>6, <1>7, <1>8, <1>9, <1>10 DEF Asks

LEMMA FreshStep ==
  ASSUME TypeOK, FreshInv, [Next]_vars
  PROVE  FreshInv'
<1>1. CASE UNCHANGED vars
  BY <1>1, UnwrittenValid DEF FreshInv, vars, tables, history
<1>2. ASSUME NEW w \in Workers, Asks(w) \/ Rests(w) PROVE FreshInv'
  <2>1. SUFFICES ASSUME NEW v \in fresh' PROVE StillValid(work[v])'
    BY DEF FreshInv
  <2>2. StillValid(work'[v])
    <3>1. CASE v # w
      BY <1>2, <3>1, QuietStep DEF FreshInv, TypeOK
    <3>2. CASE v = w /\ Asks(w)
      BY <3>2, AskedValid
    <3>3. CASE v = w /\ Rests(w)
      <4>1. v \in fresh /\ StillValid(work[w]) /\ work[w] \in Call
        BY <3>3 DEF Rests, FindDeclaration, Undo, Die, history, FreshInv, TypeOK
      <4>2. \/ work'[w] = Idle
            \/ work[w].at = "declare" /\ work'[w] = [work[w] EXCEPT !.at = "insert"]
        BY <3>3 DEF Rests, FindDeclaration, Undo, Die, Turn, TypeOK
      <4>3. CASE work'[w] = Idle
        BY <3>3, <4>3, IdleValid
      <4>4. CASE work[w].at = "declare" /\ work'[w] = [work[w] EXCEPT !.at = "insert"]
        BY <3>3, <4>1, <4>4 DEF StillValid, Call
      <4>. QED
        BY <4>2, <4>3, <4>4
    <3>. QED
      BY <1>2, <3>1, <3>2, <3>3
  <2>3. PICK c : c = work'[v]
    OBVIOUS
  <2>4. StillValid(c)'
    BY <1>2, <2>2, <2>3, QuietStep, UnwrittenValid
  <2>. QED
    BY <2>3, <2>4 DEF StillValid
<1>3. ASSUME NEW w \in Workers, Employee(w) \/ Accounts(w) PROVE FreshInv'
  <2>1. SUFFICES ASSUME NEW v \in fresh' PROVE StillValid(work[v])'
    BY DEF FreshInv
  <2>2. v = w
    BY <1>3, EmployeeStep, AccountsStep
  <2>3. PICK c : c = work'[v]
    OBVIOUS
  <2>4. c = Idle \/ c.at \in {"tds", "batches"}
    BY <1>3, <2>2, <2>3, EmployeeStep, AccountsStep DEF TypeOK, Call
  <2>5. StillValid(c)'
    BY <2>4, IdleValid
  <2>. QED
    BY <2>3, <2>5 DEF StillValid
<1>. QED
  BY <1>1, <1>2, <1>3, StepKinds

\* What a call validated still holds when it writes, unless another call has committed since.
THEOREM FreshCorrect == Spec => []FreshInv
<1>1. Init => FreshInv
  BY DEF Init, FreshInv
<1>2. TypeOK /\ FreshInv /\ [Next]_vars => FreshInv'
  BY FreshStep
<1>. QED
  BY <1>1, <1>2, TypeCorrect, PTL DEF Spec

----------------------------------------------------------------------------
(* What each write of accounts does to what is there. *)

\* An employee who gets a batch has one more than he had.
LEMMA BatchAdded ==
  ASSUME TypeOK, NEW p \in Nat, batches' = Append(batches, NewBatch(p))
  PROVE  /\ Live(batches)' = Live(batches) \cup {Len(batches) + 1}
         /\ Cardinality(Live(batches)') = Cardinality(Live(batches)) + 1
         /\ batches'[Len(batches) + 1].period = p
<1>1. NewBatch(p) \in Batch /\ NewBatch(p).period = p /\ NewBatch(p).live
  BY DEF NewBatch, Batch, Regimes
<1>2. batches \in Seq(Batch)
  BY DEF TypeOK, TablesOK
<1>3. /\ DOMAIN batches' = DOMAIN batches \cup {Len(batches) + 1}
      /\ Len(batches) + 1 \notin DOMAIN batches
      /\ \A b \in DOMAIN batches : batches'[b] = batches[b]
      /\ batches'[Len(batches) + 1] = NewBatch(p)
  BY <1>1, <1>2, RowAdded
<1>4. Live(batches)' = Live(batches) \cup {Len(batches) + 1} /\ Len(batches) + 1 \notin Live(batches)
  BY <1>1, <1>3 DEF Live
<1>5. IsFiniteSet(Live(batches))
  <2>1. Live(batches) \in SUBSET DOMAIN batches
    BY DEF Live
  <2>. QED
    BY <1>2, <2>1, RowsFinite
<1>6. Cardinality(Live(batches) \cup {Len(batches) + 1}) = Cardinality(Live(batches)) + 1
  BY <1>4, <1>5, FS_AddElement
<1>. QED
  BY <1>1, <1>3, <1>4, <1>6

\* What a batch more may change: all there was stays, and what is doubled is remembered.
Grown ==
  /\ \A b \in Live(batches) : b \in Live(batches)' /\ batches'[b].period = batches[b].period
  /\ \A b \in Live(batches)' : b \in Live(batches) \/ batches'[b].period \in Live(periods)'
  /\ Live(periods) \subseteq Live(periods)'
  /\ \A p \in Live(periods)' : p \in Live(periods) \/ p \notin DOMAIN periods
  /\ ~ doubled' => /\ ~ doubled
                   /\ Live(periods)' = Live(periods) \/ \E n : Live(periods)' = {n}
                   /\ Live(batches)' = Live(batches) \/ \E n : Live(batches)' = {n}
                   /\ \/ tds' = tds /\ Live(batches)' = Live(batches)
                      \/ tds' = tds + 1 /\ Cardinality(Live(batches)') = Cardinality(Live(batches)) + 1

LEMMA Enrolled ==
  ASSUME TypeOK, NEW w \in Workers, Initiate(w) \/ AddBatch(w)
  PROVE  Grown /\ work[w] = Idle /\ work' = work
<1>0. periods \in Seq(Period) /\ batches \in Seq(Batch) /\ doubled \in BOOLEAN
  BY DEF TypeOK, TablesOK
<1>1. CASE Initiate(w)
  <2>1. PICK initiated \in BOOLEAN, chosen \in BOOLEAN :
          LET p == IF initiated THEN FirstOf(Live(periods)) ELSE Len(periods) + 1
          IN  /\ p # 0
              /\ periods' = IF initiated THEN periods ELSE Append(periods, [live |-> TRUE])
              /\ batches' = IF chosen THEN Append(batches, NewBatch(p)) ELSE batches
              /\ tds' = IF chosen THEN TdsOfBatch(tds) ELSE tds
              /\ doubled' = (doubled \/ (~ initiated /\ Live(periods) # {}) \/ (chosen /\ Live(batches) # {}))
    BY <1>1 DEF Initiate
  <2>. DEFINE p == IF initiated THEN FirstOf(Live(periods)) ELSE Len(periods) + 1
  <2>2. /\ p \in Live(periods)' /\ p \in Nat /\ Live(periods) \subseteq Live(periods)'
        /\ \A q \in Live(periods)' : q \in Live(periods) \/ q \notin DOMAIN periods
        /\ Live(periods)' = Live(periods) \/ (~ initiated /\ Live(periods)' = Live(periods) \cup {p})
    <3>1. CASE initiated
      <4>1. Live(periods) \in SUBSET DOMAIN periods
        BY DEF Live
      <4>2. p \in Live(periods) /\ p \in Nat
        BY <1>0, <2>1, <3>1, <4>1, FirstAndLast, RowsFinite
      <4>3. Live(periods)' = Live(periods)
        BY <2>1, <3>1 DEF Live
      <4>. HIDE DEF p
      <4>. QED
        BY <4>2, <4>3
    <3>2. CASE ~ initiated
      <4>1. [live |-> TRUE] \in Period
        BY DEF Period
      <4>2. periods' = Append(periods, [live |-> TRUE])
        BY <2>1, <3>2
      <4>3. /\ DOMAIN periods' = DOMAIN periods \cup {p} /\ p \notin DOMAIN periods /\ p \in Nat
            /\ \A i \in DOMAIN periods : periods'[i] = periods[i]
            /\ periods'[p] = [live |-> TRUE]
        BY <1>0, <3>2, <4>1, <4>2, RowAdded
      <4>4. p = Len(periods) + 1
        BY <3>2
      <4>. HIDE DEF p
      <4>. QED
        BY <3>2, <4>3 DEF Live
    <3>. QED
      BY <3>1, <3>2
  <2>3. batches' = IF chosen THEN Append(batches, NewBatch(p)) ELSE batches
    BY <2>1
  <2>. HIDE DEF p
  <2>4. CASE chosen
    <3>1. /\ Live(batches)' = Live(batches) \cup {Len(batches) + 1}
          /\ Cardinality(Live(batches)') = Cardinality(Live(batches)) + 1
          /\ batches'[Len(batches) + 1].period = p
      BY <2>2, <2>3, <2>4, BatchAdded
    <3>2. \A b \in Live(batches) : batches'[b] = batches[b]
      BY <1>0, <2>2, <2>3, <2>4 DEF Live
    <3>3. tds' = tds + 1
      BY <2>1, <2>4 DEF TdsOfBatch
    <3>4. ~ doubled' => /\ ~ doubled /\ Live(batches) = {}
                        /\ ~ initiated => Live(periods) = {}
      BY <1>0, <2>1, <2>4
    <3>5. ~ doubled' => Live(periods)' = Live(periods) \/ Live(periods)' = {p}
      BY <2>2, <3>4
    <3>6. ~ doubled' => Live(batches)' = {Len(batches) + 1}
      BY <3>1, <3>4
    <3>7. Grown
      BY <2>2, <3>1, <3>2, <3>3, <3>4, <3>5, <3>6 DEF Grown
    <3>. QED
      BY <1>1, <3>7 DEF Initiate
  <2>5. CASE ~ chosen
    <3>1. batches' = batches /\ tds' = tds
      BY <2>1, <2>5
    <3>2. Live(batches)' = Live(batches)
      BY <3>1 DEF Live
    <3>. QED
      BY <1>0, <1>1, <2>1, <2>2, <3>1, <3>2 DEF Grown, Initiate
  <2>. QED
    BY <2>4, <2>5
<1>2. CASE AddBatch(w)
  <2>1. PICK p \in Live(periods) :
          /\ batches' = IF BatchesOf(p) = {} THEN Append(batches, NewBatch(p))
                        ELSE [b \in DOMAIN batches |-> IF b \in BatchesOf(p) THEN NewBatch(p) ELSE batches[b]]
          /\ tds' = TdsOfBatch(tds) /\ periods' = periods
          /\ doubled' = (doubled \/ Live(batches) # {})
    BY <1>2 DEF AddBatch
  <2>2. p \in Nat /\ Live(periods)' = Live(periods)
    BY <1>0, <2>1 DEF Live
  <2>3. CASE BatchesOf(p) = {}
    <3>1. /\ Live(batches)' = Live(batches) \cup {Len(batches) + 1}
          /\ Cardinality(Live(batches)') = Cardinality(Live(batches)) + 1
          /\ batches'[Len(batches) + 1].period = p
      BY <2>1, <2>2, <2>3, BatchAdded
    <3>2. \A b \in Live(batches) : batches'[b] = batches[b]
      BY <1>0, <2>1, <2>3 DEF Live
    <3>3. tds' = tds + 1
      BY <2>1 DEF TdsOfBatch
    <3>. QED
      BY <1>0, <1>2, <2>1, <2>2, <3>1, <3>2, <3>3 DEF Grown, AddBatch
  <2>4. CASE BatchesOf(p) # {}
    <3>1. doubled'
      BY <2>1, <2>4 DEF BatchesOf
    <3>2. /\ DOMAIN batches' = DOMAIN batches
          /\ \A b \in DOMAIN batches : batches'[b] = IF b \in BatchesOf(p) THEN NewBatch(p) ELSE batches[b]
      BY <2>1, <2>4
    <3>3. \A b \in BatchesOf(p) : batches[b].period = p /\ batches[b].live
      BY DEF BatchesOf, Live
    <3>4. NewBatch(p).live /\ NewBatch(p).period = p
      BY DEF NewBatch
    <3>5. \A b \in DOMAIN batches : batches'[b].live = batches[b].live /\ batches'[b].period = batches[b].period
      BY <1>0, <3>2, <3>3, <3>4, TypeFacts DEF Batch
    <3>. QED
      BY <1>2, <2>2, <3>1, <3>2, <3>5 DEF Grown, AddBatch, Live
  <2>. QED
    BY <2>3, <2>4
<1>. QED
  BY <1>1, <1>2

LEMMA BatchRemoved ==
  ASSUME TypeOK, NEW w \in Workers, RemoveBatch(w)
  PROVE  /\ Live(batches)' = Live(batches) \ {work[w].id} /\ UNCHANGED <<periods, tds, doubled>>
         /\ work[w].at = "batch" /\ work' = [work EXCEPT ![w].at = "tds"]
         /\ raced' = raced \cup {d \in {0} \cup DeclsOf(work[w].period) : w \notin fresh}
<1>1. work[w].at = "batch" /\ batches' = [batches EXCEPT ![work[w].id].live = FALSE]
  BY DEF RemoveBatch
<1>2. work[w].id \in DOMAIN batches /\ \A b \in DOMAIN batches : batches[b] \in Batch
  BY <1>1, TypeFacts DEF CallOK
<1>3. Live(batches)' = Live(batches) \ {work[w].id}
  BY <1>1, <1>2 DEF Live, Batch
<1>. QED
  BY <1>3 DEF RemoveBatch, Turn, Wrote

LEMMA PeriodRemoved ==
  ASSUME TypeOK, NEW w \in Workers, RemovePeriod(w)
  PROVE  /\ Live(periods)' = Live(periods) \ {work[w].period} /\ UNCHANGED <<batches, tds, doubled>>
         /\ work[w].at = "period" /\ work' = [work EXCEPT ![w].at = "batches"]
         /\ raced' = raced \cup {d \in {0} \cup DeclsOf(work[w].period) : w \notin fresh}
<1>1. work[w].at = "period" /\ periods' = [periods EXCEPT ![work[w].period].live = FALSE]
  BY DEF RemovePeriod
<1>2. work[w].period \in DOMAIN periods /\ \A p \in DOMAIN periods : periods[p] \in Period
  BY <1>1, TypeFacts DEF CallOK
<1>3. Live(periods)' = Live(periods) \ {work[w].period}
  BY <1>1, <1>2 DEF Live, Period
<1>. QED
  BY <1>3 DEF RemovePeriod, Turn, Wrote

LEMMA BatchesRemoved ==
  ASSUME TypeOK, NEW w \in Workers, RemoveBatches(w)
  PROVE  /\ Live(batches)' = Live(batches) \ BatchesOf(work[w].period) /\ UNCHANGED <<periods, tds, doubled>>
         /\ work[w].at = "batches" /\ work' = [work EXCEPT ![w].at = "tds"]
         /\ raced' = raced \cup {d \in {0} : w \notin fresh}
<1>1. work[w].at = "batches"
      /\ batches' = [b \in DOMAIN batches |->
           IF b \in BatchesOf(work[w].period) THEN [batches[b] EXCEPT !.live = FALSE] ELSE batches[b]]
  BY DEF RemoveBatches
<1>2. \A b \in DOMAIN batches : batches[b] \in Batch
  BY TypeFacts
<1>3. Live(batches)' = Live(batches) \ BatchesOf(work[w].period)
  BY <1>1, <1>2 DEF Live, Batch
<1>. QED
  BY <1>1, <1>3 DEF RemoveBatches, Turn, Wrote

LEMMA TdsRemoved ==
  ASSUME NEW w \in Workers, RemoveTds(w)
  PROVE  /\ UNCHANGED <<periods, batches, doubled>> /\ tds' = IF work[w].last THEN 0 ELSE tds
         /\ work[w].at = "tds" /\ work' = [work EXCEPT ![w] = Idle]
         /\ raced' = raced \cup {d \in {0} : w \notin fresh}
BY DEF RemoveTds, Turn, Wrote

----------------------------------------------------------------------------
(* TDS rows follow the batch.  Accounts delete in three commits; what a    *)
(* call that nothing has outdated will find at each of them:               *)

OnlyOne == ~ doubled => /\ \A p, q \in Live(periods) : p = q
                        /\ \A a, b \in Live(batches) : a = b

\* A call that goes on to the batches of a period has deleted the period.
Closed == \A w \in Workers : work[w].at = "batches" => work[w].period \notin Live(periods)

\* A batch outlives its period only while the deletion of that period is under way, or was cut off.
InPeriod == \A b \in Live(batches) :
  \/ batches[b].period \in Live(periods) \/ 0 \in raced
  \/ \E w \in Workers : work[w].at = "batches" /\ work[w].period = batches[b].period

Excused(w) == doubled \/ 0 \in raced \/ \E v \in Workers \ {w} : Midway(v)

\* The deletion of TDS rows that is to come matches them only if no batch will be left.
Emptied == \A w \in fresh :
  /\ work[w].at = "batches" => Excused(w) \/
       IF work[w].last THEN Live(batches) \subseteq BatchesOf(work[w].period)
       ELSE tds = Cardinality(Live(batches)) /\ BatchesOf(work[w].period) = {}
  /\ work[w].at = "tds" => Excused(w) \/
       IF work[w].last THEN Live(batches) = {} ELSE tds = Cardinality(Live(batches))

TdsInv == OnlyOne /\ Closed /\ InPeriod /\ Emptied /\ TdsFollowsBatch

LEMMA TdsInit == Init => TdsInv
<1>1. SUFFICES ASSUME Init PROVE TdsInv
  OBVIOUS
<1>2. PICK s \in Starts : periods = s.periods /\ batches = s.batches /\ tds = s.tds
  BY <1>1 DEF Init
<1>3. /\ \A p, q \in Live(periods) : p = q
      /\ \A a, b \in Live(batches) : a = b
      /\ \A b \in Live(batches) : batches[b].period \in Live(periods)
      /\ tds = Cardinality(Live(batches))
  <2>1. Sound(s)
    BY StartsAssumption
  <2>. QED
    BY <1>2, <2>1 DEF Sound
<1>4. \A w \in Workers : work[w].at = "idle"
  BY <1>1, IdleType DEF Init
<1>. QED
  BY <1>1, <1>3, <1>4 DEF Init, TdsInv, OnlyOne, Closed, InPeriod, Emptied, TdsFollowsBatch

\* Steps that leave batches, periods and TDS rows alone, and the deletions that are under way.
LEMMA TdsRests ==
  ASSUME TypeOK, TdsInv, NEW w \in Workers,
         UNCHANGED <<periods, tds, doubled>>, Live(batches)' = Live(batches),
         \A b \in Live(batches) : batches'[b].period = batches[b].period,
         \A p : BatchesOf(p)' = BatchesOf(p),
         \A v \in Workers : v # w => work'[v] = work[v],
         ~ Midway(w)', Midway(w) => 0 \in raced', raced \subseteq raced', fresh' \subseteq fresh \cup {w}
  PROVE  TdsInv'
<1>1. Live(periods)' = Live(periods)
  BY DEF Live
<1>2. OnlyOne' /\ Closed' /\ InPeriod' /\ TdsFollowsBatch'
  BY <1>1 DEF TdsInv, OnlyOne, Closed, InPeriod, TdsFollowsBatch, Midway
<1>3. ASSUME NEW v \in Workers, v # w, Excused(v) PROVE Excused(v)'
  BY <1>3 DEF Excused, Midway
<1>4. Emptied'
  <2>1. SUFFICES ASSUME NEW v \in fresh', Midway(v)'
                 PROVE  Excused(v)' \/ (v # w /\ v \in fresh /\ v \in Workers /\ work'[v] = work[v] /\ ~ Excused(v))
    BY <1>3 DEF Emptied, Midway, TdsInv
  <2>. QED
    BY <1>3, <2>1 DEF TypeOK
<1>. QED
  BY <1>2, <1>4 DEF TdsInv

LEMMA TdsGrown ==
  ASSUME TypeOK, TdsInv, NEW w \in Workers, Initiate(w) \/ AddBatch(w)
  PROVE  TdsInv'
<1>1. Grown /\ work[w] = Idle /\ work' = work /\ work[w].at = "idle"
  BY Enrolled, IdleType
<1>2. fresh' \subseteq {w} /\ raced \subseteq raced' /\ doubled \in BOOLEAN /\ tds \in Nat
  BY AccountsStep DEF Accounts, TypeOK, TablesOK
<1>3. \A v \in Workers : work[v].at = "batches" => work[v].period \in DOMAIN periods
  BY TypeFacts DEF CallOK
<1>4. OnlyOne'
  BY <1>1 DEF OnlyOne, TdsInv, Grown
<1>5. Closed'
  BY <1>1, <1>3 DEF Closed, TdsInv, Grown
<1>6. InPeriod'
  BY <1>1, <1>2 DEF InPeriod, TdsInv, Grown
<1>7. Emptied'
  BY <1>1, <1>2 DEF Emptied
<1>8. TdsFollowsBatch'
  <2>1. SUFFICES ASSUME ~ doubled' PROVE TdsFollowsBatch'
    BY DEF TdsFollowsBatch
  <2>2. ~ doubled /\ TdsFollowsBatch
    BY <1>1, <2>1 DEF Grown, TdsInv
  <2>. QED
    BY <1>1, <1>2, <2>1, <2>2 DEF TdsFollowsBatch, Grown
<1>. QED
  BY <1>4, <1>5, <1>6, <1>7, <1>8 DEF TdsInv

\* A worker that is not midway, and finds the rows out of step, is excused.
LEMMA NotAlone ==
  ASSUME TdsInv, NEW w \in Workers, ~ Midway(w)
  PROVE  /\ Excused(w) \/ tds = Cardinality(Live(batches))
         /\ \A b \in Live(batches) : Excused(w) \/ batches[b].period \in Live(periods)
BY DEF TdsInv, TdsFollowsBatch, InPeriod, Excused, Midway

\* The others are midway still.
LEMMA StillExcused ==
  ASSUME NEW w \in Workers, raced \subseteq raced', doubled' = doubled,
         \A v \in Workers \ {w} : work'[v] = work[v], Excused(w)
  PROVE  Excused(w)'
BY DEF Excused, Midway

LEMMA TdsRemoveBatch ==
  ASSUME TypeOK, FreshInv, TdsInv, NEW w \in Workers, RemoveBatch(w)
  PROVE  TdsInv'
<1>1. /\ Live(batches)' = Live(batches) \ {work[w].id} /\ UNCHANGED <<periods, tds, doubled>>
      /\ work[w].at = "batch" /\ work' = [work EXCEPT ![w].at = "tds"] /\ raced \subseteq raced'
      /\ \A b \in DOMAIN batches : batches'[b].period = batches[b].period
  BY BatchRemoved, TablesStep DEF Kept, Next
<1>2. /\ work'[w].at = "tds" /\ work'[w].last = work[w].last /\ work'[w].period = work[w].period
      /\ \A v \in Workers \ {w} : work'[v] = work[v]
  BY <1>1, TypeFacts DEF TypeOK, Call
<1>3. fresh' = fresh \cap {w} /\ Live(periods)' = Live(periods) /\ Live(batches) \subseteq DOMAIN batches
  BY <1>1, AccountsStep DEF Accounts, Live
<1>4. OnlyOne'
  BY <1>1, <1>3 DEF OnlyOne, TdsInv
<1>5. Closed'
  BY <1>1, <1>2, <1>3 DEF Closed, TdsInv
<1>6. InPeriod'
  <2>1. \A b \in Live(batches)' : b \in Live(batches) /\ batches'[b].period = batches[b].period
    BY <1>1, <1>3
  <2>. QED
    BY <1>1, <1>2, <1>3, <2>1 DEF InPeriod, TdsInv
<1>7. Emptied'
  <2>1. SUFFICES ASSUME w \in fresh, ~ Excused(w)'
                 PROVE  IF work[w].last THEN Live(batches)' = {} ELSE tds = Cardinality(Live(batches)')
    BY <1>1, <1>2, <1>3 DEF Emptied
  <2>2. /\ work[w].id \in Live(batches) /\ work[w].period = batches[work[w].id].period
        /\ work[w].last = (work[w].period \in Live(periods))
    BY <1>1, <2>1, TypeFacts DEF FreshInv, StillValid, CallOK
  <2>3. ~ Excused(w)
    BY <1>1, <1>2, <2>1, StillExcused
  <2>4. work[w].last
    BY <1>1, <2>2, <2>3, NotAlone DEF Midway
  <2>5. Live(batches)' = {}
    BY <1>1, <2>2, <2>3 DEF TdsInv, OnlyOne, Excused
  <2>. QED
    BY <2>4, <2>5
<1>8. TdsFollowsBatch'
  BY <1>2 DEF TdsFollowsBatch
<1>. QED
  BY <1>4, <1>5, <1>6, <1>7, <1>8 DEF TdsInv

LEMMA TdsRemovePeriod ==
  ASSUME TypeOK, FreshInv, TdsInv, NEW w \in Workers, RemovePeriod(w)
  PROVE  TdsInv'
<1>1. /\ Live(periods)' = Live(periods) \ {work[w].period} /\ UNCHANGED <<batches, tds, doubled>>
      /\ work[w].at = "period" /\ work' = [work EXCEPT ![w].at = "batches"] /\ raced \subseteq raced'
  BY PeriodRemoved
<1>2. /\ work'[w].at = "batches" /\ work'[w].last = work[w].last /\ work'[w].period = work[w].period
      /\ \A v \in Workers \ {w} : work'[v] = work[v]
  BY <1>1, TypeFacts DEF TypeOK, Call
<1>3. /\ fresh' = fresh \cap {w} /\ Live(batches)' = Live(batches)
      /\ \A p : BatchesOf(p)' = BatchesOf(p)
  BY <1>1, AccountsStep DEF Accounts, Live, BatchesOf
<1>4. OnlyOne'
  BY <1>1, <1>3 DEF OnlyOne, TdsInv
<1>5. Closed'
  BY <1>1, <1>2 DEF Closed, TdsInv
<1>6. InPeriod'
  BY <1>1, <1>2, <1>3 DEF InPeriod, TdsInv
<1>7. Emptied'
  <2>1. SUFFICES ASSUME w \in fresh, ~ Excused(w)'
                 PROVE  IF work[w].last THEN Live(batches) \subseteq BatchesOf(work[w].period)
                        ELSE tds = Cardinality(Live(batches)) /\ BatchesOf(work[w].period) = {}
    BY <1>1, <1>2, <1>3 DEF Emptied
  <2>2. work[w].last = (work[w].period \in Live(periods))
    BY <1>1, <2>1 DEF FreshInv, StillValid
  <2>3. ~ Excused(w)
    BY <1>1, <1>2, <2>1, StillExcused
  <2>4. tds = Cardinality(Live(batches)) /\ \A b \in Live(batches) : batches[b].period \in Live(periods)
    BY <1>1, <2>3, NotAlone DEF Midway
  <2>5. \A p, q \in Live(periods) : p = q
    BY <2>3 DEF TdsInv, OnlyOne, Excused
  <2>. QED
    BY <2>2, <2>4, <2>5 DEF BatchesOf
<1>8. TdsFollowsBatch'
  BY <1>2 DEF TdsFollowsBatch
<1>. QED
  BY <1>4, <1>5, <1>6, <1>7, <1>8 DEF TdsInv

LEMMA TdsRemoveBatches ==
  ASSUME TypeOK, FreshInv, TdsInv, NEW w \in Workers, RemoveBatches(w)
  PROVE  TdsInv'
<1>1. /\ Live(batches)' = Live(batches) \ BatchesOf(work[w].period) /\ UNCHANGED <<periods, tds, doubled>>
      /\ work[w].at = "batches" /\ work' = [work EXCEPT ![w].at = "tds"] /\ raced \subseteq raced'
      /\ \A b \in DOMAIN batches : batches'[b].period = batches[b].period
  BY BatchesRemoved, TablesStep DEF Kept, Next
<1>2. /\ work'[w].at = "tds" /\ work'[w].last = work[w].last /\ work'[w].period = work[w].period
      /\ \A v \in Workers \ {w} : work'[v] = work[v]
  BY <1>1, TypeFacts DEF TypeOK, Call
<1>3. fresh' = fresh \cap {w} /\ Live(periods)' = Live(periods) /\ Live(batches) \subseteq DOMAIN batches
  BY <1>1, AccountsStep DEF Accounts, Live
<1>4. OnlyOne'
  BY <1>1, <1>3 DEF OnlyOne, TdsInv
<1>5. Closed'
  BY <1>1, <1>2, <1>3 DEF Closed, TdsInv
<1>6. InPeriod'
  <2>1. \A b \in Live(batches)' : /\ b \in Live(batches) /\ batches'[b].period = batches[b].period
                                  /\ batches[b].period # work[w].period
    BY <1>1, <1>3 DEF BatchesOf
  <2>. QED
    BY <1>1, <1>2, <1>3, <2>1 DEF InPeriod, TdsInv
<1>7. Emptied'
  <2>1. SUFFICES ASSUME w \in fresh, ~ Excused(w)'
                 PROVE  IF work[w].last THEN Live(batches)' = {} ELSE tds = Cardinality(Live(batches)')
    BY <1>1, <1>2, <1>3 DEF Emptied
  <2>2. ~ Excused(w)
    BY <1>1, <1>2, <2>1, StillExcused
  <2>3. IF work[w].last THEN Live(batches) \subseteq BatchesOf(work[w].period)
        ELSE tds = Cardinality(Live(batches)) /\ BatchesOf(work[w].period) = {}
    BY <1>1, <2>1, <2>2 DEF TdsInv, Emptied
  <2>4. ~ work[w].last => Live(batches)' = Live(batches)
    BY <1>1, <2>3
  <2>. QED
    BY <1>1, <2>3, <2>4
<1>8. TdsFollowsBatch'
  BY <1>2 DEF TdsFollowsBatch
<1>. QED
  BY <1>4, <1>5, <1>6, <1>7, <1>8 DEF TdsInv

LEMMA TdsRemoveTds ==
  ASSUME TypeOK, TdsInv, NEW w \in Workers, RemoveTds(w)
  PROVE  TdsInv'
<1>1. /\ UNCHANGED <<periods, batches, doubled>> /\ tds' = IF work[w].last THEN 0 ELSE tds
      /\ work[w].at = "tds" /\ work' = [work EXCEPT ![w] = Idle]
      /\ raced' = raced \cup {d \in {0} : w \notin fresh}
  BY TdsRemoved
<1>2. work'[w].at = "idle" /\ \A v \in Workers \ {w} : work'[v] = work[v]
  BY <1>1, IdleType DEF TypeOK
<1>3. fresh' = fresh \cap {w} /\ Live(periods)' = Live(periods) /\ Live(batches)' = Live(batches)
  BY <1>1, AccountsStep DEF Accounts, Live
<1>4. OnlyOne' /\ Closed' /\ InPeriod'
  BY <1>1, <1>2, <1>3 DEF OnlyOne, Closed, InPeriod, TdsInv
<1>5. Emptied'
  BY <1>2, <1>3 DEF Emptied
<1>6. TdsFollowsBatch'
  <2>1. CASE w \notin fresh
    <3>1. 0 \in raced'
      BY <1>1, <2>1
    <3>. QED
      BY <3>1 DEF TdsFollowsBatch
  <2>2. CASE w \in fresh /\ Excused(w)
    BY <1>1, <1>2, <2>2 DEF Excused, TdsFollowsBatch, Midway
  <2>3. CASE w \in fresh /\ ~ Excused(w)
    <3>1. IF work[w].last THEN Live(batches) = {} ELSE tds = Cardinality(Live(batches))
      BY <1>1, <2>3 DEF TdsInv, Emptied
    <3>2. tds' = Cardinality(Live(batches)')
      BY <1>1, <1>3, <3>1, FS_EmptySet
    <3>. QED
      BY <3>2 DEF TdsFollowsBatch
  <2>. QED
    BY <2>1, <2>2, <2>3
<1>. QED
  BY <1>4, <1>5, <1>6 DEF TdsInv

LEMMA TdsStep ==
  ASSUME TypeOK, FreshInv, TdsInv, [Next]_vars
  PROVE  TdsInv'
<1>0. Live(batches) \subseteq DOMAIN batches /\ Kept
  BY TablesStep DEF Live
<1>1. CASE UNCHANGED vars
  BY <1>1 DEF vars, tables, history, TdsInv, OnlyOne, Closed, InPeriod, Emptied, TdsFollowsBatch,
     Excused, Midway, Live, BatchesOf
<1>2. ASSUME NEW w \in Workers, Asks(w) \/ Rests(w) PROVE TdsInv'
  <2>1. /\ UNCHANGED <<periods, tds, doubled>> /\ Live(batches)' = Live(batches)
        /\ \A p : BatchesOf(p)' = BatchesOf(p)
    BY <1>2, QuietStep DEF Live, BatchesOf
  <2>. QED
    BY <1>0, <1>2, <2>1, QuietStep, TdsRests DEF Kept, Midway
<1>3. ASSUME NEW w \in Workers, Employee(w) PROVE TdsInv'
  <2>1. work' = [work EXCEPT ![w] = Idle]
    BY <1>3, EmployeeStep
  <2>2. ~ Midway(w)' /\ \A v \in Workers : v # w => work'[v] = work[v]
    BY <2>1, IdleType DEF Midway, TypeOK
  <2>. QED
    BY <1>0, <1>3, <2>2, EmployeeStep, TdsRests DEF Kept
<1>4. ASSUME NEW w \in Workers, Accounts(w) PROVE TdsInv'
  BY <1>4, TdsGrown, TdsRemoveBatch, TdsRemovePeriod, TdsRemoveBatches, TdsRemoveTds DEF Accounts
<1>. QED
  BY <1>1, <1>2, <1>3, <1>4, StepKinds

\* TDS rows are there once for an employee with a batch and not for one without, however accounts
\* open, add and delete, with the exceptions the property names.
THEOREM TdsAlwaysFollows == Spec => []TdsFollowsBatch
<1>1. TypeOK /\ FreshInv /\ TdsInv /\ [Next]_vars => TdsInv'
  BY TdsStep
<1>2. TdsInv => TdsFollowsBatch
  BY DEF TdsInv
<1>. QED
  BY <1>1, <1>2, TdsInit, TypeCorrect, FreshCorrect, PTL DEF Spec

----------------------------------------------------------------------------
(* What each write of the employee does to declarations and claims.        *)

SameDecl(d) == decls'[d].period = decls[d].period /\ decls'[d].cat = decls[d].cat

LEMMA Inserted ==
  ASSUME TypeOK, NEW w \in Workers, InsertDeclaration(w)
  PROVE  LET n == Len(decls) + 1
         IN  /\ work[w].at = "insert" /\ n \notin DOMAIN decls
             /\ Live(decls)' = Live(decls) \cup {n}
             /\ \A d \in DOMAIN decls : decls'[d] = decls[d]
             /\ decls'[n].period = work[w].period /\ decls'[n].cat = work[w].cat
             /\ decls'[n].amount = work[w].amount /\ decls'[n].amount \in Nat
             /\ decls'[n].amount <= Limit[decls'[n].cat] /\ UNCHANGED <<periods, claims, revived, misnamed>>
             /\ n \notin misnamed /\ raced' = raced \cup {x \in {n} : w \notin fresh}
             /\ w \in fresh => n \notin raced'
<1>. DEFINE row == [period |-> work[w].period, cat |-> work[w].cat,
                    amount |-> work[w].amount, live |-> TRUE]
<1>1. row \in Decl /\ row.amount <= Limit[row.cat] /\ work[w].at = "insert"
  BY TypeFacts DEF InsertDeclaration, CallOK, Call, Decl
<1>2. decls' = Append(decls, row) /\ decls \in Seq(Decl)
  BY DEF InsertDeclaration, TypeOK, TablesOK
<1>3. row.period = work[w].period /\ row.cat = work[w].cat /\ row.amount = work[w].amount /\ row.live
  OBVIOUS
<1>. HIDE DEF row
<1>4. /\ DOMAIN decls' = DOMAIN decls \cup {Len(decls) + 1} /\ Len(decls) + 1 \notin DOMAIN decls
      /\ Len(decls) + 1 # 0 /\ \A d \in DOMAIN decls : decls'[d] = decls[d]
      /\ decls'[Len(decls) + 1] = row
  BY <1>1, <1>2, RowAdded
<1>5. /\ raced' = raced \cup {x \in {Len(decls) + 1} : w \notin fresh} /\ raced \subseteq {0} \cup DOMAIN decls
      /\ misnamed \subseteq DOMAIN decls /\ misnamed' = misnamed
  BY DEF InsertDeclaration, Wrote, TypeOK
<1>6. Live(decls)' = Live(decls) \cup {Len(decls) + 1}
  BY <1>3, <1>4 DEF Live
<1>. QED
  BY <1>1, <1>3, <1>4, <1>5, <1>6 DEF InsertDeclaration, Decl

\* A call nothing has outdated finds no declaration to add to.
LEMMA AddedTo ==
  ASSUME TypeOK, FreshInv, NEW w \in Workers, AddToDeclaration(w)
  PROVE  /\ w \notin fresh /\ raced' = raced \cup Same(w)
         /\ Live(decls)' = Live(decls) /\ \A d \in DOMAIN decls : SameDecl(d)
         /\ \A d \in DOMAIN decls \ raced' : decls'[d] = decls[d]
         /\ UNCHANGED <<periods, claims, revived, misnamed>>
<1>1. \A d \in DOMAIN decls : decls[d] \in Decl
  BY TypeFacts
<1>2. /\ decls' = [d \in DOMAIN decls |->
                IF d \in Same(w) THEN [decls[d] EXCEPT !.amount = @ + work[w].amount] ELSE decls[d]]
      /\ raced' = raced \cup {d \in Same(w) : w \notin fresh}
      /\ work[w].at = "declare" /\ Cardinality(Same(w) \cap Live(decls)) = 1
  BY DEF AddToDeclaration, Wrote
<1>3. Live(decls)' = Live(decls) /\ \A d \in DOMAIN decls : SameDecl(d)
  BY <1>1, <1>2 DEF Live, SameDecl, Decl
<1>4. w \notin fresh
  <2>1. Same(w) \cap Live(decls) # {}
    <3>1. SUFFICES ASSUME Same(w) \cap Live(decls) = {} PROVE FALSE
      OBVIOUS
    <3>2. Cardinality(Same(w) \cap Live(decls)) = 0
      BY <3>1, FS_EmptySet
    <3>. QED
      BY <1>2, <3>2
  <2>2. PICK d \in Live(decls) : decls[d].period = work[w].period /\ decls[d].cat = work[w].cat
    BY <2>1 DEF Same
  <2>. QED
    BY <1>2, <2>2 DEF FreshInv, StillValid, MayDeclare, DeclsOf
<1>. QED
  BY <1>2, <1>3, <1>4 DEF AddToDeclaration

LEMMA Amended ==
  ASSUME TypeOK, NEW w \in Workers, AmendDeclaration(w)
  PROVE  LET d == work[w].id
         IN  /\ work[w].at = "amend" /\ d \in DOMAIN decls
             /\ Live(decls)' = Live(decls) /\ \A x \in DOMAIN decls : SameDecl(x)
             /\ \A x \in DOMAIN decls \ {d} : decls'[x] = decls[x]
             /\ decls'[d].amount = work[w].amount
             /\ work[w].cat \in Categories /\ work[w].amount <= Limit[work[w].cat]
             /\ misnamed' = {x \in misnamed \cup {d} : x = d => work[w].cat # decls[x].cat}
             /\ UNCHANGED <<periods, claims, batches, revived>>
             /\ raced' = raced \cup {x \in {d} : w \notin fresh}
<1>1. /\ work[w].id \in DOMAIN decls /\ \A d \in DOMAIN decls : decls[d] \in Decl
      /\ work[w].cat \in Categories /\ work[w].amount <= Limit[work[w].cat]
  BY TypeFacts DEF AmendDeclaration, CallOK
<1>2. decls' = [decls EXCEPT ![work[w].id].amount = work[w].amount]
  BY DEF AmendDeclaration
<1>3. Live(decls)' = Live(decls) /\ \A x \in DOMAIN decls : SameDecl(x)
  BY <1>1, <1>2 DEF Live, SameDecl, Decl
<1>4. decls'[work[w].id].amount = work[w].amount /\ \A x \in DOMAIN decls \ {work[w].id} : decls'[x] = decls[x]
  BY <1>1, <1>2 DEF Decl
<1>. QED
  BY <1>1, <1>3, <1>4 DEF AmendDeclaration, Wrote

LEMMA Withdrawn ==
  ASSUME TypeOK, NEW w \in Workers, WithdrawDeclaration(w)
  PROVE  LET d == work[w].id
         IN  /\ work[w].at = "withdraw" /\ d \in DOMAIN decls /\ work[w].period = decls[d].period
             /\ Live(decls)' = Live(decls) \ {d} /\ DOMAIN decls' = DOMAIN decls
             /\ \A x \in DOMAIN decls : SameDecl(x) /\ decls'[x].amount = decls[x].amount
             /\ Live(claims)' = {c \in Live(claims) : claims[c].decl # d}
             /\ \A c \in DOMAIN claims : claims[c].decl # d => claims'[c] = claims[c]
             /\ UNCHANGED <<periods, revived, misnamed>>
             /\ raced' = raced \cup {x \in {d, 0} : w \notin fresh}
<1>1. /\ work[w].id \in DOMAIN decls /\ \A d \in DOMAIN decls : decls[d] \in Decl
      /\ work[w].period = decls[work[w].id].period /\ \A c \in DOMAIN claims : claims[c] \in Claim
  BY TypeFacts DEF WithdrawDeclaration, CallOK
<1>2. decls' = [decls EXCEPT ![work[w].id].live = FALSE] /\ claims' = ClaimsLeft(work[w].id)
  BY DEF WithdrawDeclaration
<1>3. /\ Live(decls)' = Live(decls) \ {work[w].id} /\ DOMAIN decls' = DOMAIN decls
      /\ \A x \in DOMAIN decls : SameDecl(x) /\ decls'[x].amount = decls[x].amount
  BY <1>1, <1>2 DEF Live, SameDecl, Decl
<1>4. /\ Live(claims)' = {c \in Live(claims) : claims[c].decl # work[w].id}
      /\ \A c \in DOMAIN claims : claims[c].decl # work[w].id => claims'[c] = claims[c]
  BY <1>1, <1>2 DEF Live, ClaimsLeft, Claim
<1>. QED
  BY <1>1, <1>3, <1>4 DEF WithdrawDeclaration, Wrote

LEMMA ClaimAdded ==
  ASSUME TypeOK, NEW w \in Workers, AddClaim(w)
  PROVE  LET n == Len(claims) + 1
         IN  /\ work[w].at = "claim" /\ work[w].id \in DOMAIN decls /\ n \notin DOMAIN claims
             /\ Live(claims)' = Live(claims) \cup {n}
             /\ \A c \in DOMAIN claims : claims'[c] = claims[c]
             /\ claims'[n].decl = work[w].id /\ claims'[n].amount = work[w].amount
             /\ claims'[n].status = "Under Review" /\ work[w].amount \in Nat
             /\ UNCHANGED <<periods, batches, decls, revived, misnamed>>
             /\ raced' = raced \cup {x \in {work[w].id} : w \notin fresh}
<1>. DEFINE row == [decl |-> work[w].id, period |-> work[w].period, amount |-> work[w].amount,
                    status |-> "Under Review", live |-> TRUE]
<1>1. row \in Claim /\ work[w].at = "claim" /\ work[w].id \in DOMAIN decls /\ work[w].amount \in Nat
  BY TypeFacts DEF AddClaim, CallOK, Call, Claim, Statuses
<1>2. claims' = Append(claims, row) /\ claims \in Seq(Claim)
  BY DEF AddClaim, TypeOK, TablesOK
<1>3. row.decl = work[w].id /\ row.amount = work[w].amount /\ row.status = "Under Review" /\ row.live
  OBVIOUS
<1>. HIDE DEF row
<1>4. /\ DOMAIN claims' = DOMAIN claims \cup {Len(claims) + 1} /\ Len(claims) + 1 \notin DOMAIN claims
      /\ \A c \in DOMAIN claims : claims'[c] = claims[c]
      /\ claims'[Len(claims) + 1] = row
  BY <1>1, <1>2, RowAdded
<1>5. Live(claims)' = Live(claims) \cup {Len(claims) + 1}
  BY <1>3, <1>4 DEF Live
<1>. QED
  BY <1>1, <1>3, <1>4, <1>5 DEF AddClaim, Wrote

\* Every other step writes neither declarations nor claims.
LEMMA Others ==
  ASSUME TypeOK, NEW w \in Workers, Asks(w) \/ Rests(w) \/ Accounts(w)
  PROVE  UNCHANGED <<decls, claims, revived, misnamed>> /\ raced \subseteq raced'
BY QuietStep, AccountsStep

----------------------------------------------------------------------------
(* Declarations stay within the maximum of their category.                 *)

\* Within its own maximum, or, amended under another category, within that of some category.
WithinMaximum(d) ==
  \/ decls[d].amount <= Limit[decls[d].cat]
  \/ d \in misnamed /\ \E other \in Categories : decls[d].amount <= Limit[other]

\* A declaration no crossing has touched is alone in its category and within its maximum.
Separate == \A d \in Live(decls) \ raced :
  /\ WithinMaximum(d)
  /\ \A e \in Live(decls) :
       decls[e].period = decls[d].period /\ decls[e].cat = decls[d].cat => e = d \/ e \in raced

LEMMA SeparateInit == Init => Separate
<1>1. SUFFICES ASSUME Init PROVE Separate
  OBVIOUS
<1>2. PICK s \in Starts : decls = s.decls
  BY <1>1 DEF Init
<1>3. Sound(s)
  BY StartsAssumption
<1>. QED
  BY <1>2, <1>3 DEF Sound, Separate, WithinMaximum

LEMMA SeparateStep ==
  ASSUME TypeOK, FreshInv, Separate, [Next]_vars
  PROVE  Separate'
<1>0. Live(decls) \subseteq DOMAIN decls
  BY DEF Live
<1>1. UNCHANGED <<decls, misnamed>> /\ raced \subseteq raced' => Separate'
  BY DEF Separate, WithinMaximum, Live
<1>2. UNCHANGED vars => UNCHANGED <<decls, misnamed>> /\ raced \subseteq raced'
  BY DEF vars, tables, history
<1>3. ASSUME NEW w \in Workers, Asks(w) \/ Rests(w) \/ Accounts(w) PROVE Separate'
  BY <1>1, <1>3, Others
<1>4. ASSUME NEW w \in Workers, Employee(w) PROVE Separate'
  <2>1. CASE AddClaim(w) \/ EditClaim(w) \/ DropClaim(w) \/ JudgeClaim(w)
    BY <1>1, <2>1, ClaimAdded, ClaimRewritten
  <2>2. CASE InsertDeclaration(w)
    <3>. DEFINE n == Len(decls) + 1
    <3>1. /\ work[w].at = "insert" /\ n \notin DOMAIN decls
          /\ Live(decls)' = Live(decls) \cup {n}
          /\ \A d \in DOMAIN decls : decls'[d] = decls[d]
          /\ decls'[n].period = work[w].period /\ decls'[n].cat = work[w].cat
          /\ decls'[n].amount <= Limit[decls'[n].cat] /\ misnamed' = misnamed
          /\ raced' = raced \cup {x \in {n} : w \notin fresh}
      BY <2>2, Inserted
    <3>2. w \in fresh => \A d \in Live(decls) : decls[d].period = work[w].period => decls[d].cat # work[w].cat
      BY <3>1 DEF FreshInv, StillValid, MayDeclare, DeclsOf
    <3>. HIDE DEF n
    <3>. QED
      BY <1>0, <3>1, <3>2 DEF Separate, WithinMaximum
  <2>3. CASE AddToDeclaration(w)
    BY <1>0, <2>3, AddedTo DEF Separate, WithinMaximum, SameDecl
  <2>4. CASE AmendDeclaration(w)
    <3>. DEFINE i == work[w].id
    <3>1. /\ i \in DOMAIN decls /\ Live(decls)' = Live(decls) /\ \A x \in DOMAIN decls : SameDecl(x)
          /\ \A x \in DOMAIN decls \ {i} : decls'[x] = decls[x]
          /\ decls'[i].amount = work[w].amount
          /\ work[w].cat \in Categories /\ work[w].amount <= Limit[work[w].cat]
          /\ misnamed' = {x \in misnamed \cup {i} : x = i => work[w].cat # decls[x].cat}
          /\ raced' = raced \cup {x \in {i} : w \notin fresh}
      BY <2>4, Amended
    <3>. HIDE DEF i
    <3>2. ASSUME NEW d \in Live(decls) \ raced PROVE WithinMaximum(d)'
      <4>1. CASE d = i /\ work[w].cat = decls[i].cat
        BY <3>1, <4>1 DEF WithinMaximum, SameDecl
      <4>2. CASE d = i /\ work[w].cat # decls[i].cat
        BY <3>1, <4>2 DEF WithinMaximum
      <4>3. CASE d # i
        BY <1>0, <3>1, <3>2, <4>3 DEF Separate, WithinMaximum
      <4>. QED
        BY <4>1, <4>2, <4>3
    <3>. QED
      BY <1>0, <3>1, <3>2 DEF Separate, SameDecl
  <2>5. CASE WithdrawDeclaration(w)
    BY <1>0, <2>5, Withdrawn DEF Separate, WithinMaximum, SameDecl
  <2>. QED
    BY <1>4, <2>1, <2>2, <2>3, <2>4, <2>5 DEF Employee
<1>. QED
  BY <1>1, <1>2, <1>3, <1>4, StepKinds

\* All declarations of one category in one period together stay within its maximum, or that of
\* another category an amendment named, unless two calls crossed.
THEOREM DeclaredAlwaysWithinLimit == Spec => []DeclaredWithinLimit
<1>1. TypeOK /\ Separate => DeclaredWithinLimit
  <2>1. SUFFICES ASSUME TypeOK, Separate, NEW p \in DOMAIN periods, NEW cat \in Categories,
                        NEW S, S = {d \in DeclsOf(p) : decls[d].cat = cat}, S \cap raced = {}
                 PROVE  \/ Total(decls, S) <= Limit[cat]
                        \/ S \cap misnamed # {} /\ \E other \in Categories : Total(decls, S) <= Limit[other]
    BY DEF DeclaredWithinLimit
  <2>2. \A d \in S : /\ d \in Live(decls) \ raced /\ decls[d].period = p /\ decls[d].cat = cat
                     /\ decls[d].amount \in Nat
    BY <2>1, TypeFacts DEF DeclsOf, Live, Decl
  <2>3. CASE S = {}
    <3>1. Total(decls, S) = 0
      BY <2>3, TotalEmpty
    <3>2. 0 <= Limit[cat]
      BY <2>1, TaxConstants
    <3>. QED
      BY <3>1, <3>2
  <2>4. CASE S # {}
    <3>1. PICK d \in S : TRUE
      BY <2>4
    <3>2. \A e \in S : e = d
      BY <2>1, <2>2 DEF Separate
    <3>3. S = {d}
      BY <3>1, <3>2
    <3>4. Total(decls, {d}) = decls[d].amount
      BY <2>2, <3>1, TotalSingle
    <3>5. \/ decls[d].amount <= Limit[decls[d].cat]
          \/ d \in misnamed /\ \E other \in Categories : decls[d].amount <= Limit[other]
      BY <2>1, <2>2, <3>1 DEF Separate, WithinMaximum
    <3>. QED
      BY <2>2, <3>1, <3>3, <3>4, <3>5
  <2>. QED
    BY <2>3, <2>4
<1>2. TypeOK /\ FreshInv /\ Separate /\ [Next]_vars => Separate'
  BY SeparateStep
<1>. QED
  BY <1>1, <1>2, SeparateInit, TypeCorrect, FreshCorrect, PTL DEF Spec

----------------------------------------------------------------------------
(* Nothing is left behind.                                                 *)

LEMMA OrphansInit == Init => NothingOrphaned
<1>1. SUFFICES ASSUME Init PROVE NothingOrphaned
  OBVIOUS
<1>2. PICK s \in Starts : /\ periods = s.periods /\ batches = s.batches /\ decls = s.decls
                          /\ claims = s.claims
  BY <1>1 DEF Init
<1>3. Sound(s)
  BY StartsAssumption
<1>4. /\ \A c \in Live(claims) : claims[c].decl \in Live(decls)
      /\ \A b \in Live(batches) : batches[b].period \in Live(periods)
      /\ \A d \in Live(decls) : \E b \in Live(batches) : batches[b].period = decls[d].period
  BY <1>2, <1>3 DEF Sound
<1>. QED
  BY <1>4 DEF NothingOrphaned, BatchesOf

ClaimHasDecl == \A c \in Live(claims) : claims[c].decl \in Live(decls) \cup raced
DeclHasBatch == \A d \in Live(decls) \ raced :
                  decls[d].period \in Live(periods) /\ BatchesOf(decls[d].period) # {}

LEMMA ClaimHasDeclStep ==
  ASSUME TypeOK, FreshInv, ClaimHasDecl, [Next]_vars
  PROVE  ClaimHasDecl'
<1>0. Live(decls) \subseteq DOMAIN decls /\ Live(claims) \subseteq DOMAIN claims
  BY DEF Live
<1>1. UNCHANGED <<decls, claims>> /\ raced \subseteq raced' => ClaimHasDecl'
  BY DEF ClaimHasDecl, Live
<1>2. UNCHANGED vars => UNCHANGED <<decls, claims>> /\ raced \subseteq raced'
  BY DEF vars, tables, history
<1>3. ASSUME NEW w \in Workers, Asks(w) \/ Rests(w) \/ Accounts(w) PROVE ClaimHasDecl'
  BY <1>1, <1>3, Others
<1>4. ASSUME NEW w \in Workers, Employee(w) PROVE ClaimHasDecl'
  <2>1. CASE InsertDeclaration(w)
    BY <2>1, Inserted DEF ClaimHasDecl, Live
  <2>2. CASE AddToDeclaration(w)
    BY <2>2, AddedTo DEF ClaimHasDecl, Live
  <2>3. CASE AmendDeclaration(w)
    BY <2>3, Amended DEF ClaimHasDecl, Live
  <2>4. CASE WithdrawDeclaration(w)
    BY <1>0, <2>4, Withdrawn DEF ClaimHasDecl
  <2>5. CASE AddClaim(w)
    <3>1. w \in fresh => work[w].id \in Live(decls)
      BY <2>5, ClaimAdded DEF FreshInv, StillValid
    <3>2. Live(decls)' = Live(decls)
      BY <2>5, ClaimAdded DEF Live
    <3>. QED
      BY <1>0, <2>5, <3>1, <3>2, ClaimAdded DEF ClaimHasDecl
  <2>6. CASE EditClaim(w) \/ DropClaim(w) \/ JudgeClaim(w)
    <3>1. /\ UNCHANGED decls /\ raced \subseteq raced'
          /\ \A c \in Live(claims)' : c \in Live(claims) /\ claims'[c].decl = claims[c].decl
      BY <2>6, ClaimRewritten DEF Live
    <3>2. Live(decls)' = Live(decls)
      BY <3>1 DEF Live
    <3>. QED
      BY <3>1, <3>2 DEF ClaimHasDecl
  <2>. QED
    BY <1>4, <2>1, <2>2, <2>3, <2>4, <2>5, <2>6 DEF Employee
<1>. QED
  BY <1>1, <1>2, <1>3, <1>4, StepKinds

LEMMA DeclHasBatchStep ==
  ASSUME TypeOK, FreshInv, Closed, DeclHasBatch, [Next]_vars
  PROVE  DeclHasBatch'
<1>0. /\ Live(decls) \subseteq DOMAIN decls /\ Live(batches) \subseteq DOMAIN batches
      /\ \A b \in DOMAIN batches : batches'[b].period = batches[b].period
  BY TablesStep DEF Live, Kept
<1>1. UNCHANGED <<decls, periods, batches>> /\ raced \subseteq raced' => DeclHasBatch'
  BY DEF DeclHasBatch, Live, BatchesOf
<1>2. UNCHANGED vars => UNCHANGED <<decls, periods, batches>> /\ raced \subseteq raced'
  BY DEF vars, tables, history
<1>3. ASSUME NEW w \in Workers, Asks(w) \/ Rests(w) PROVE DeclHasBatch'
  BY <1>1, <1>3, QuietStep
<1>4. ASSUME NEW w \in Workers, Employee(w) PROVE DeclHasBatch'
  <2>1. Live(periods)' = Live(periods) /\ (\A p : BatchesOf(p)' = BatchesOf(p)) /\ raced \subseteq raced'
    BY <1>4, EmployeeStep DEF Live
  <2>2. (\A d \in Live(decls)' : d \in Live(decls) /\ decls'[d].period = decls[d].period) => DeclHasBatch'
    BY <2>1 DEF DeclHasBatch
  <2>3. CASE InsertDeclaration(w)
    <3>. DEFINE n == Len(decls) + 1
    <3>1. /\ work[w].at = "insert" /\ Live(decls)' = Live(decls) \cup {n}
          /\ \A d \in DOMAIN decls : decls'[d] = decls[d]
          /\ decls'[n].period = work[w].period
          /\ raced' = raced \cup {x \in {n} : w \notin fresh}
      BY <2>3, Inserted
    <3>2. w \in fresh => work[w].period \in Live(periods) /\ BatchesOf(work[w].period) # {}
      BY <3>1 DEF FreshInv, StillValid, MayDeclare
    <3>. HIDE DEF n
    <3>. QED
      BY <1>0, <2>1, <3>1, <3>2 DEF DeclHasBatch
  <2>4. CASE AddToDeclaration(w)
    BY <1>0, <2>2, <2>4, AddedTo DEF SameDecl
  <2>5. CASE AmendDeclaration(w)
    BY <1>0, <2>2, <2>5, Amended DEF SameDecl
  <2>6. CASE WithdrawDeclaration(w)
    BY <1>0, <2>2, <2>6, Withdrawn DEF SameDecl
  <2>7. CASE AddClaim(w) \/ EditClaim(w) \/ DropClaim(w) \/ JudgeClaim(w)
    <3>1. decls' = decls
      BY <2>7, ClaimAdded, ClaimRewritten
    <3>. QED
      BY <2>2, <3>1 DEF Live
  <2>. QED
    BY <1>4, <2>3, <2>4, <2>5, <2>6, <2>7 DEF Employee
<1>5. ASSUME NEW w \in Workers, Initiate(w) \/ AddBatch(w) PROVE DeclHasBatch'
  <2>1. UNCHANGED decls /\ raced \subseteq raced'
    BY <1>5, Others DEF Accounts
  <2>2. Live(periods) \subseteq Live(periods)' /\ \A p : BatchesOf(p) \subseteq BatchesOf(p)'
    BY <1>5, Enrolled DEF Grown, BatchesOf
  <2>. QED
    BY <2>1, <2>2 DEF DeclHasBatch, Live
<1>6. ASSUME NEW w \in Workers, RemoveBatch(w) PROVE DeclHasBatch'
  <2>1. UNCHANGED <<decls, periods>>
    BY <1>6 DEF RemoveBatch
  <2>2. /\ Live(batches)' = Live(batches) \ {work[w].id} /\ work[w].at = "batch"
        /\ raced' = raced \cup {d \in {0} \cup DeclsOf(work[w].period) : w \notin fresh}
    BY <1>6, BatchRemoved
  <2>3. work[w].period = batches[work[w].id].period
    BY <2>2, TypeFacts DEF CallOK
  <2>4. w \in fresh => DeclsOf(work[w].period) = {}
    BY <2>2 DEF FreshInv, StillValid, Undeclared
  <2>5. \A d \in Live(decls) \ raced' : decls[d].period # work[w].period
    BY <2>2, <2>4 DEF DeclsOf
  <2>6. \A p : p # work[w].period => BatchesOf(p) \subseteq BatchesOf(p)'
    BY <1>0, <2>2, <2>3 DEF BatchesOf
  <2>. QED
    BY <2>1, <2>2, <2>5, <2>6 DEF DeclHasBatch, Live
<1>7. ASSUME NEW w \in Workers, RemovePeriod(w) PROVE DeclHasBatch'
  <2>1. UNCHANGED <<decls, batches>>
    BY <1>7 DEF RemovePeriod
  <2>2. /\ Live(periods)' = Live(periods) \ {work[w].period} /\ work[w].at = "period"
        /\ raced' = raced \cup {d \in {0} \cup DeclsOf(work[w].period) : w \notin fresh}
    BY <1>7, PeriodRemoved
  <2>3. w \in fresh => DeclsOf(work[w].period) = {}
    BY <2>2 DEF FreshInv, StillValid, Undeclared
  <2>4. \A d \in Live(decls) \ raced' : decls[d].period # work[w].period
    BY <2>2, <2>3 DEF DeclsOf
  <2>5. Live(decls)' = Live(decls) /\ \A p : BatchesOf(p)' = BatchesOf(p)
    BY <2>1 DEF Live, BatchesOf
  <2>. QED
    BY <2>1, <2>2, <2>4, <2>5 DEF DeclHasBatch
<1>8. ASSUME NEW w \in Workers, RemoveBatches(w) PROVE DeclHasBatch'
  <2>1. UNCHANGED <<decls, periods>>
    BY <1>8 DEF RemoveBatches
  <2>2. /\ Live(batches)' = Live(batches) \ BatchesOf(work[w].period) /\ work[w].at = "batches"
        /\ raced \subseteq raced'
    BY <1>8, BatchesRemoved
  <2>3. work[w].period \notin Live(periods)
    BY <2>2 DEF Closed
  <2>4. \A d \in Live(decls) \ raced' : decls[d].period # work[w].period
    BY <2>2, <2>3 DEF DeclHasBatch
  <2>5. \A p : p # work[w].period => BatchesOf(p) \subseteq BatchesOf(p)'
    BY <1>0, <2>2 DEF BatchesOf
  <2>. QED
    BY <2>1, <2>2, <2>4, <2>5 DEF DeclHasBatch, Live
<1>9. ASSUME NEW w \in Workers, RemoveTds(w) PROVE DeclHasBatch'
  BY <1>1, <1>9, TdsRemoved, Others DEF Accounts
<1>. QED
  BY <1>1, <1>2, <1>3, <1>4, <1>5, <1>6, <1>7, <1>8, <1>9, StepKinds DEF Accounts

\* No claim stays under a declaration that was withdrawn, and no declaration without its period or a
\* batch of the employee, unless two calls about it crossed.
THEOREM NothingEverOrphaned == Spec => []NothingOrphaned
<1>1. NothingOrphaned <=> ClaimHasDecl /\ DeclHasBatch
  BY DEF NothingOrphaned, ClaimHasDecl, DeclHasBatch
<1>2. TypeOK /\ FreshInv /\ ClaimHasDecl /\ [Next]_vars => ClaimHasDecl'
  BY ClaimHasDeclStep
<1>3. TypeOK /\ FreshInv /\ TdsInv /\ DeclHasBatch /\ [Next]_vars => DeclHasBatch'
  BY DeclHasBatchStep DEF TdsInv
<1>4. TypeOK /\ FreshInv /\ TdsInv /\ [Next]_vars => TdsInv'
  BY TdsStep
<1>. QED
  BY <1>1, <1>2, <1>3, <1>4, TdsInit, OrphansInit, TypeCorrect, FreshCorrect, PTL DEF Spec

----------------------------------------------------------------------------
(* Claims stay within what was declared.                                   *)

Within(d) == Total(claims, Counted(d)) <= decls[d].amount

LEMMA WithinInit == Init => ClaimsWithinDeclaration
<1>1. SUFFICES ASSUME Init PROVE ClaimsWithinDeclaration
  OBVIOUS
<1>2. PICK s \in Starts : decls = s.decls /\ claims = s.claims
  BY <1>1 DEF Init
<1>3. Sound(s)
  BY StartsAssumption
<1>4. \A d \in Live(decls) :
        Total(claims, {c \in Live(claims) : claims[c].decl = d /\ claims[c].status \in Standing}) <= decls[d].amount
  BY <1>2, <1>3 DEF Sound
<1>5. \A d : {c \in Live(claims) : claims[c].decl = d /\ claims[c].status \in Standing} = Counted(d)
  BY DEF ClaimsOf, Counted
<1>. QED
  BY <1>4, <1>5 DEF ClaimsWithinDeclaration

LEMMA CountedFacts ==
  ASSUME TypeOK, NEW d, NEW S \in SUBSET DOMAIN claims
  PROVE  /\ IsFiniteSet(S) /\ \A c \in S : claims[c].amount \in Nat
         /\ Counted(d) \in SUBSET DOMAIN claims /\ Total(claims, S) \in Nat
<1>1. IsFiniteSet(S)
  BY RowsFinite DEF TypeOK, TablesOK
<1>2. \A c \in S : claims[c].amount \in Nat
  BY TypeFacts DEF Claim
<1>3. S \in SUBSET S /\ \A c \in S : claims[c].amount = claims[c].amount
  OBVIOUS
<1>4. Total(claims, S) \in Nat
  BY <1>1, <1>2, <1>3, TotalWithin
<1>. QED
  BY <1>1, <1>2, <1>4 DEF Counted, ClaimsOf, Live

\* A declaration as large as before stays within, if no claim of it has grown and none has come.
LEMMA WithinStill ==
  ASSUME TypeOK, NEW d \in DOMAIN decls, Within(d), decls'[d].amount >= decls[d].amount,
         decls'[d].amount \in Nat, Counted(d)' \subseteq Counted(d),
         \A c \in Counted(d)' : claims'[c].amount = claims[c].amount
  PROVE  Within(d)'
<1>1. Counted(d) \in SUBSET DOMAIN claims
  BY CountedFacts
<1>2. IsFiniteSet(Counted(d)) /\ \A c \in Counted(d) : claims[c].amount \in Nat
  BY <1>1, CountedFacts
<1>3. PICK new : new = claims'
  OBVIOUS
<1>4. PICK T : T = Counted(d)'
  OBVIOUS
<1>5. T \in SUBSET Counted(d) /\ \A c \in T : new[c].amount = claims[c].amount
  BY <1>3, <1>4
<1>6. /\ Total(new, T) <= Total(claims, Counted(d))
      /\ Total(new, T) \in Nat /\ Total(claims, Counted(d)) \in Nat
  BY <1>2, <1>5, TotalWithin
<1>7. decls[d].amount \in Nat
  BY TypeFacts DEF Decl
<1>8. Total(new, T) <= decls'[d].amount
  BY <1>6, <1>7 DEF Within
<1>. QED
  BY <1>3, <1>4, <1>8 DEF Within

\* It stays within with one claim more, or a claim of another amount, that fits beside the others.
LEMMA WithinAdded ==
  ASSUME TypeOK, NEW d \in DOMAIN decls, NEW S \in SUBSET DOMAIN claims, NEW y, y \notin S,
         NEW amount \in Nat, amount + Total(claims, S) <= decls[d].amount,
         Counted(d)' = S \cup {y}, claims'[y].amount = amount,
         \A c \in S : claims'[c].amount = claims[c].amount, decls'[d].amount = decls[d].amount
  PROVE  Within(d)'
<1>1. IsFiniteSet(S) /\ (\A c \in S : claims[c].amount \in Nat) /\ Total(claims, S) \in Nat
  BY CountedFacts
<1>2. PICK new : new = claims'
  OBVIOUS
<1>3. /\ new[y].amount \in Nat /\ new[y].amount = amount
      /\ \A c \in S : new[c].amount = claims[c].amount
  BY <1>2
<1>4. Total(new, S \cup {y}) = Total(claims, S) + new[y].amount
  BY <1>1, <1>3, TotalAdded
<1>5. Total(new, S \cup {y}) <= decls'[d].amount
  BY <1>1, <1>3, <1>4
<1>. QED
  BY <1>2, <1>5 DEF Within

LEMMA WithinStep ==
  ASSUME TypeOK, FreshInv, ClaimsWithinDeclaration, [Next]_vars
  PROVE  ClaimsWithinDeclaration'
<1>. DEFINE Goal == \A d \in Live(decls)' \ (raced' \cup revived') : Within(d)'
<1>. HIDE DEF Goal
<1>0. /\ Live(decls) \subseteq DOMAIN decls /\ Live(claims) \subseteq DOMAIN claims
      /\ \A d \in DOMAIN decls : decls[d].amount \in Nat
      /\ \A c \in DOMAIN claims : claims[c].decl \in DOMAIN decls
      /\ \A d \in Live(decls) \ (raced \cup revived) : Within(d)
      /\ \A d \in DOMAIN decls : decls'[d].amount \in Nat
  <2>1. \A d \in DOMAIN decls : decls[d].amount \in Nat
    BY TypeFacts DEF Decl
  <2>2. \A d \in DOMAIN decls' : decls'[d].amount \in Nat
    <3>1. decls' \in Seq(Decl)
      BY TablesStep DEF TablesOK
    <3>2. decls' \in [1 .. Len(decls') -> Decl] /\ DOMAIN decls' = 1 .. Len(decls')
      BY <3>1, RowsAre
    <3>. QED
      BY <3>2 DEF Decl
  <2>3. DOMAIN decls \subseteq DOMAIN decls'
    BY TablesStep DEF Kept
  <2>. QED
    BY <2>1, <2>2, <2>3, TypeFacts DEF Live, ClaimsWithinDeclaration, Within, Counted
<1>1. ASSUME UNCHANGED <<decls, claims>>, raced \subseteq raced', revived \subseteq revived' PROVE Goal
  BY <1>0, <1>1 DEF Goal, Within, Live, Counted, ClaimsOf
<1>2. ASSUME UNCHANGED claims PROVE \A d : Counted(d)' = Counted(d)
  BY <1>2 DEF Counted, ClaimsOf, Live
<1>3. UNCHANGED vars => UNCHANGED <<decls, claims>> /\ raced \subseteq raced' /\ revived \subseteq revived'
  BY DEF vars, tables, history
<1>4. ASSUME NEW w \in Workers, Asks(w) \/ Rests(w) \/ Accounts(w) PROVE Goal
  BY <1>1, <1>4, Others
<1>5. ASSUME NEW w \in Workers, InsertDeclaration(w) PROVE Goal
  <2>. DEFINE n == Len(decls) + 1
  <2>1. /\ n \notin DOMAIN decls /\ Live(decls)' = Live(decls) \cup {n}
        /\ \A d \in DOMAIN decls : decls'[d] = decls[d]
        /\ decls'[n].amount \in Nat /\ UNCHANGED <<claims, revived>> /\ raced \subseteq raced'
    BY <1>5, Inserted
  <2>. HIDE DEF n
  <2>2. ASSUME NEW d \in Live(decls)', d \notin raced' \cup revived' PROVE Within(d)'
    <3>1. CASE d = n
      <4>1. Counted(d) = {}
        BY <1>0, <2>1, <3>1 DEF Counted, ClaimsOf
      <4>2. Counted(d)' = Counted(d)
        BY <2>1 DEF Counted, ClaimsOf, Live
      <4>3. PICK new : new = claims'
        OBVIOUS
      <4>4. PICK T : T = Counted(d)'
        OBVIOUS
      <4>5. Total(new, T) = 0
        BY <4>1, <4>2, <4>4, TotalEmpty
      <4>6. Total(new, T) <= decls'[d].amount
        BY <2>1, <3>1, <4>5
      <4>. QED
        BY <4>3, <4>4, <4>6 DEF Within
    <3>2. CASE d # n
      <4>1. Within(d) /\ Counted(d)' = Counted(d) /\ claims' = claims /\ decls'[d] = decls[d] /\ d \in DOMAIN decls
        BY <1>0, <1>2, <2>1, <2>2, <3>2
      <4>. QED
        BY <1>0, <4>1, WithinStill
    <3>. QED
      BY <3>1, <3>2
  <2>. QED
    BY <2>2 DEF Goal
<1>6. ASSUME NEW w \in Workers, AddToDeclaration(w) PROVE Goal
  <2>1. SUFFICES ASSUME NEW d \in Live(decls)' \ (raced' \cup revived') PROVE Within(d)'
    BY DEF Goal
  <2>2. /\ Within(d) /\ Counted(d)' = Counted(d) /\ claims' = claims /\ decls'[d] = decls[d]
        /\ d \in DOMAIN decls
    BY <1>0, <1>2, <1>6, AddedTo
  <2>. QED
    BY <1>0, <2>2, WithinStill
<1>7. ASSUME NEW w \in Workers, AmendDeclaration(w) PROVE Goal
  <2>1. SUFFICES ASSUME NEW d \in Live(decls)' \ (raced' \cup revived') PROVE Within(d)'
    BY DEF Goal
  <2>2. /\ work[w].at = "amend" /\ claims' = claims /\ Counted(d)' = Counted(d)
        /\ d \in Live(decls) \ (raced \cup revived) /\ d \in DOMAIN decls
        /\ d # work[w].id => decls'[d] = decls[d]
        /\ decls'[work[w].id].amount = work[w].amount
        /\ raced' = raced \cup {x \in {work[w].id} : w \notin fresh}
    BY <1>0, <1>2, <1>7, Amended
  <2>3. CASE d = work[w].id
    <3>1. work[w].amount >= Total(claims, Counted(d))
      BY <2>2, <2>3 DEF FreshInv, StillValid
    <3>2. Counted(d) \in SUBSET DOMAIN claims
      BY CountedFacts
    <3>3. Total(claims, Counted(d)) \in Nat
      BY <3>2, CountedFacts
    <3>4. Total(claims, Counted(d)) <= decls'[d].amount
      BY <1>0, <2>2, <2>3, <3>1, <3>3
    <3>. QED
      BY <2>2, <3>4 DEF Within
  <2>4. CASE d # work[w].id
    BY <1>0, <2>2, <2>4, WithinStill
  <2>. QED
    BY <2>3, <2>4
<1>8. ASSUME NEW w \in Workers, WithdrawDeclaration(w) PROVE Goal
  <2>1. SUFFICES ASSUME NEW d \in Live(decls)' \ (raced' \cup revived') PROVE Within(d)'
    BY DEF Goal
  <2>2. /\ d \in Live(decls) \ (raced \cup revived) /\ d # work[w].id /\ decls'[d].amount = decls[d].amount
        /\ Live(claims)' = {c \in Live(claims) : claims[c].decl # work[w].id}
        /\ \A c \in DOMAIN claims : claims[c].decl # work[w].id => claims'[c] = claims[c]
    BY <1>0, <1>8, Withdrawn
  <2>3. Counted(d)' = Counted(d) /\ \A c \in Counted(d) : claims'[c] = claims[c]
    BY <1>0, <2>2 DEF Counted, ClaimsOf
  <2>. QED
    BY <1>0, <2>2, <2>3, WithinStill
<1>9. ASSUME NEW w \in Workers, AddClaim(w) PROVE Goal
  <2>1. SUFFICES ASSUME NEW d \in Live(decls)' \ (raced' \cup revived') PROVE Within(d)'
    BY DEF Goal
  <2>. DEFINE n == Len(claims) + 1
  <2>2. /\ work[w].at = "claim" /\ n \notin DOMAIN claims /\ decls' = decls
        /\ Live(claims)' = Live(claims) \cup {n}
        /\ \A c \in DOMAIN claims : claims'[c] = claims[c]
        /\ claims'[n].decl = work[w].id /\ claims'[n].amount = work[w].amount
        /\ claims'[n].status = "Under Review" /\ work[w].amount \in Nat
        /\ raced' = raced \cup {x \in {work[w].id} : w \notin fresh} /\ revived' = revived
    BY <1>9, ClaimAdded
  <2>3. d \in Live(decls) \ (raced \cup revived) /\ d \in DOMAIN decls
    BY <1>0, <2>2 DEF Live
  <2>. HIDE DEF n
  <2>4. CASE d = work[w].id
    <3>1. work[w].amount + Total(claims, Counted(d)) <= decls[d].amount
      BY <2>2, <2>4 DEF FreshInv, StillValid, MayClaim
    <3>2. Counted(d) \in SUBSET DOMAIN claims
      BY CountedFacts
    <3>3. Counted(d)' = Counted(d) \cup {n}
      BY <1>0, <2>2, <2>4 DEF Counted, ClaimsOf, Standing
    <3>. QED
      BY <2>2, <2>3, <3>1, <3>2, <3>3, WithinAdded
  <2>5. CASE d # work[w].id
    <3>1. Counted(d)' = Counted(d) /\ \A c \in Counted(d) : claims'[c] = claims[c]
      BY <1>0, <2>2, <2>5 DEF Counted, ClaimsOf
    <3>2. /\ Within(d) /\ decls'[d] = decls[d] /\ d \in DOMAIN decls
          /\ decls'[d].amount \in Nat /\ decls[d].amount \in Nat
      BY <1>0, <2>2, <2>3
    <3>3. Counted(d)' \subseteq Counted(d) /\ \A c \in Counted(d)' : claims'[c].amount = claims[c].amount
      BY <3>1
    <3>. QED
      BY <3>2, <3>3, WithinStill
  <2>. QED
    BY <2>4, <2>5
<1>10. ASSUME NEW w \in Workers, EditClaim(w) \/ DropClaim(w) \/ JudgeClaim(w) PROVE Goal
  <2>1. SUFFICES ASSUME NEW d \in Live(decls)' \ (raced' \cup revived') PROVE Within(d)'
    BY DEF Goal
  <2>. DEFINE i == work[w].id
  <2>2. /\ work[w].at \in {"edit", "drop", "judge"} /\ i \in DOMAIN claims /\ DOMAIN claims' = DOMAIN claims
        /\ \A x \in DOMAIN claims : x # i => claims'[x] = claims[x]
        /\ claims'[i].decl = claims[i].decl /\ (claims'[i].live => claims[i].live)
        /\ work[w].at = "edit" => claims'[i].amount = work[w].amount
        /\ work[w].at # "edit" => claims'[i].amount = claims[i].amount
        /\ revived' = revived \cup {x \in {claims[i].decl} :
                             claims[i].status \notin Standing /\ claims'[i].status \in Standing}
        /\ raced' = raced \cup {x \in {claims[i].decl} : w \notin fresh} /\ decls' = decls
    BY <1>10, ClaimRewritten
  <2>3. d \in Live(decls) \ (raced \cup revived) /\ d \in DOMAIN decls
    BY <1>0, <2>2 DEF Live
  <2>4. CASE d # claims[i].decl
    <3>. HIDE DEF i
    <3>1. \A c \in Counted(d)' : c \in Counted(d) /\ claims'[c] = claims[c]
      <4>1. \A c \in Counted(d)' : c \in DOMAIN claims /\ c # i
        <5>1. \A c \in Counted(d)' : c \in DOMAIN claims' /\ claims'[c].decl = d
          BY DEF Counted, ClaimsOf, Live
        <5>. QED
          BY <2>2, <2>4, <5>1
      <4>2. \A c \in Counted(d)' : claims'[c] = claims[c]
        BY <2>2, <4>1
      <4>. QED
        BY <4>1, <4>2 DEF Counted, ClaimsOf, Live
    <3>2. /\ Within(d) /\ decls'[d] = decls[d] /\ d \in DOMAIN decls
          /\ decls'[d].amount \in Nat /\ decls[d].amount \in Nat
      BY <1>0, <2>2, <2>3
    <3>3. Counted(d)' \subseteq Counted(d) /\ \A c \in Counted(d)' : claims'[c].amount = claims[c].amount
      BY <3>1
    <3>. QED
      BY <3>2, <3>3, WithinStill
  <2>5. CASE d = claims[i].decl /\ work[w].at = "edit"
    <3>1. i \in Live(claims) /\ claims[i].status = "Under Review" /\ MayClaim(d, work[w].amount, Unrejected(d) \ {i})
      BY <2>1, <2>2, <2>5 DEF FreshInv, StillValid
    <3>. DEFINE S == Counted(d) \ {i}
    <3>2. Total(claims, S) <= Total(claims, Unrejected(d) \ {i})
      <4>. DEFINE U == Unrejected(d) \ {i}
      <4>1. S \in SUBSET U /\ U \in SUBSET DOMAIN claims
        BY DEF Counted, Unrejected, Standing, ClaimsOf, Live
      <4>. HIDE DEF S, U
      <4>2. IsFiniteSet(U) /\ \A c \in U : claims[c].amount \in Nat
        BY <4>1, CountedFacts
      <4>3. \A c \in S : claims[c].amount = claims[c].amount
        OBVIOUS
      <4>4. Total(claims, S) <= Total(claims, U)
        BY <4>1, <4>2, <4>3, TotalWithin
      <4>. QED
        BY <4>4 DEF U
    <3>3. work[w].amount + Total(claims, S) <= decls[d].amount
      <4>1. /\ Total(claims, S) \in Nat /\ Total(claims, Unrejected(d) \ {i}) \in Nat
            /\ work[w].amount \in Nat /\ decls[d].amount \in Nat
        <5>1. S \in SUBSET DOMAIN claims /\ Unrejected(d) \ {i} \in SUBSET DOMAIN claims
          BY DEF Counted, Unrejected, ClaimsOf, Live
        <5>. HIDE DEF S
        <5>. QED
          BY <1>0, <2>3, <5>1, CountedFacts, TypeFacts DEF Call
      <4>2. work[w].amount + Total(claims, Unrejected(d) \ {i}) <= decls[d].amount
        BY <3>1 DEF MayClaim
      <4>. HIDE DEF S
      <4>. QED
        BY <3>2, <4>1, <4>2
    <3>4. EditClaim(w)
      BY <1>10, <2>5 DEF DropClaim, JudgeClaim, Rewrite
    <3>5. claims'[i].status = "Under Review" /\ claims'[i].live
      BY ZenonT(60), <2>2, <3>1, <3>4, TypeFacts DEF EditClaim, Rewrite, Claim, Live
    <3>6. Counted(d)' = S \cup {i}
      <4>1. i \in Counted(d)'
        <5>1. claims'[i].decl = d /\ claims'[i].status \in Standing /\ claims'[i].live /\ i \in DOMAIN claims'
          BY <2>2, <2>5, <3>5 DEF Standing
        <5>. HIDE DEF i
        <5>. QED
          BY <5>1 DEF Counted, ClaimsOf, Live
      <4>2. \A c \in DOMAIN claims \ {i} : c \in Counted(d)' <=> c \in Counted(d)
        BY <2>2 DEF Counted, ClaimsOf, Live
      <4>3. Counted(d) \subseteq DOMAIN claims /\ \A c \in Counted(d)' : c \in DOMAIN claims
        BY <2>2 DEF Counted, ClaimsOf, Live
      <4>. QED
        BY <4>1, <4>2, <4>3
    <3>7. S \in SUBSET DOMAIN claims /\ i \notin S /\ \A c \in S : claims'[c].amount = claims[c].amount
      BY <2>2 DEF Counted, ClaimsOf, Live
    <3>8. work[w].amount \in Nat /\ claims'[i].amount = work[w].amount
      BY <2>2, <2>5, TypeFacts DEF Call
    <3>. HIDE DEF S, i
    <3>. QED
      BY <2>2, <2>3, <3>3, <3>6, <3>7, <3>8, WithinAdded
  <2>6. CASE d = claims[i].decl /\ work[w].at # "edit"
    <3>1. claims'[i].status \in Standing => claims[i].status \in Standing
      BY <2>1, <2>2, <2>6
    <3>. HIDE DEF i
    <3>2. Counted(d)' \subseteq Counted(d) /\ \A c \in Counted(d)' : claims'[c].amount = claims[c].amount
      BY <2>2, <2>6, <3>1 DEF Counted, ClaimsOf, Live
    <3>. QED
      BY <1>0, <2>2, <2>3, <3>2, WithinStill
  <2>. QED
    BY <2>4, <2>5, <2>6
<1>11. ASSUME NEW w \in Workers, Employee(w) PROVE Goal
  BY <1>5, <1>6, <1>7, <1>8, <1>9, <1>10, <1>11 DEF Employee
<1>12. Goal
  BY <1>1, <1>3, <1>4, <1>11, StepKinds
<1>. QED
  BY <1>12 DEF Goal, Within, Counted, ClaimsWithinDeclaration

\* What is approved or under review stays within what was declared, unless a claim that
\* did not count was made to count, or two calls crossed.
THEOREM ClaimsAlwaysWithin == Spec => []ClaimsWithinDeclaration
<1>1. TypeOK /\ FreshInv /\ ClaimsWithinDeclaration /\ [Next]_vars => ClaimsWithinDeclaration'
  BY WithinStep
<1>. QED
  BY <1>1, WithinInit, TypeCorrect, FreshCorrect, PTL DEF Spec

----------------------------------------------------------------------------
(* What no step may do.                                                    *)

\* A call of accounts about claim c ends.
Judged(w, c) == /\ work[w].at = "judge" /\ work[w].id = c /\ work'[w] = Idle
                /\ claims'[c] = [claims[c] EXCEPT !.status = work[w].status]

ApprovedStays ==
  \A c \in Live(claims) : claims[c].status = "Approved" =>
    \/ claims'[c] = claims[c]
    \/ \E w \in Workers : Judged(w, c)
    \/ claims[c].decl \in raced'

LEMMA ApprovedStep ==
  ASSUME TypeOK, FreshInv, [Next]_vars
  PROVE  ApprovedStays
<1>0. Live(claims) \subseteq DOMAIN claims /\ \A c \in DOMAIN claims : claims[c] \in Claim
  BY TypeFacts DEF Live
<1>1. (\A c \in DOMAIN claims : claims'[c] = claims[c]) => ApprovedStays
  BY <1>0 DEF ApprovedStays
<1>2. UNCHANGED vars => UNCHANGED claims
  BY DEF vars, tables
<1>3. ASSUME NEW w \in Workers, Asks(w) \/ Rests(w) \/ Accounts(w) PROVE ApprovedStays
  BY <1>1, <1>3, Others
<1>4. ASSUME NEW w \in Workers, Employee(w) PROVE ApprovedStays
  <2>1. CASE InsertDeclaration(w) \/ AddToDeclaration(w) \/ AmendDeclaration(w) \/ AddClaim(w)
    BY <1>1, <2>1, Inserted, AddedTo, Amended, ClaimAdded
  <2>2. CASE WithdrawDeclaration(w)
    <3>1. /\ work[w].at = "withdraw"
          /\ \A c \in DOMAIN claims : claims[c].decl # work[w].id => claims'[c] = claims[c]
          /\ raced' = raced \cup {x \in {work[w].id, 0} : w \notin fresh}
      BY <2>2, Withdrawn
    <3>2. w \in fresh => \A c \in Live(claims) : claims[c].decl = work[w].id => claims[c].status # "Approved"
      BY <3>1 DEF FreshInv, StillValid, MayWithdraw, ClaimsOf
    <3>. QED
      BY <1>0, <3>1, <3>2 DEF ApprovedStays
  <2>3. CASE EditClaim(w) \/ DropClaim(w) \/ JudgeClaim(w)
    <3>. DEFINE i == work[w].id
    <3>1. /\ i \in DOMAIN claims /\ work[w].at \in {"edit", "drop", "judge"}
          /\ \A x \in DOMAIN claims : x # i => claims'[x] = claims[x]
          /\ raced' = raced \cup {x \in {claims[i].decl} : w \notin fresh}
      BY <2>3, ClaimRewritten
    <3>2. \/ claims[i].status # "Approved" \/ claims'[i] = claims[i]
          \/ Judged(w, i) \/ w \notin fresh
      <4>1. CASE EditClaim(w) \/ DropClaim(w)
        <5>1. work[w].at \in {"edit", "drop"}
          BY <4>1 DEF EditClaim, DropClaim, Rewrite
        <5>2. w \in fresh => claims[i].status = "Under Review"
          BY <5>1 DEF FreshInv, StillValid
        <5>. QED
          BY <5>2
      <4>2. CASE JudgeClaim(w)
        <5>1. /\ work[w].at = "judge"
              /\ claims' = [claims EXCEPT ![i] = [claims[i] EXCEPT !.status = work[w].status]]
          BY <4>2 DEF JudgeClaim, Rewrite
        <5>2. claims'[i] = [claims[i] EXCEPT !.status = work[w].status]
          BY <3>1, <5>1
        <5>3. work' = [work EXCEPT ![w] = Idle] /\ w \in DOMAIN work
          BY <2>3, ClaimRewritten DEF TypeOK
        <5>. QED
          BY <5>1, <5>2, <5>3 DEF Judged
      <4>. QED
        BY <2>3, <4>1, <4>2
    <3>. HIDE DEF i
    <3>. QED
      BY <1>0, <3>1, <3>2 DEF ApprovedStays
  <2>. QED
    BY <1>4, <2>1, <2>2, <2>3 DEF Employee
<1>. QED
  BY <1>1, <1>2, <1>3, <1>4, StepKinds

\* An approved claim neither goes nor becomes another amount or a question again, but by a call of
\* accounts about it, unless the call that does it was validated before the approval.
THEOREM ApprovedAlwaysKept == Spec => ApprovedIsKept
<1>1. TypeOK /\ FreshInv /\ [Next]_vars => [ApprovedStays]_vars
  BY ApprovedStep
<1>2. Spec => [][ApprovedStays]_vars
  BY <1>1, TypeCorrect, FreshCorrect, PTL DEF Spec
<1>. QED
  BY <1>2 DEF ApprovedIsKept, ApprovedStays, Judged

RegimeStays ==
  \A b \in Live(batches) :
    batches[b].regime # "Unset" /\ batches'[b].live /\ batches'[b].regime = "Unset" =>
      \/ \A d \in DOMAIN decls' : decls'[d].live => decls'[d].period # batches[b].period
      \/ 0 \in raced' \/ doubled'

LEMMA RegimeStep ==
  ASSUME TypeOK, FreshInv, [Next]_vars
  PROVE  RegimeStays
<1>0. Live(batches) \subseteq DOMAIN batches /\ \A b \in DOMAIN batches : batches[b] \in Batch
  BY TypeFacts DEF Live
<1>1. (\A b \in Live(batches) : batches'[b].regime \in {batches[b].regime} \cup {"Old", "New"} \/ ~ batches'[b].live)
        => RegimeStays
  BY <1>0 DEF RegimeStays
<1>2. UNCHANGED batches => RegimeStays
  BY <1>1
<1>3. UNCHANGED vars => UNCHANGED batches
  BY DEF vars, tables
<1>4. ASSUME NEW w \in Workers, Asks(w) \/ Rests(w) PROVE RegimeStays
  BY <1>2, <1>4, QuietStep
<1>5. ASSUME NEW w \in Workers, Employee(w) PROVE RegimeStays
  <2>1. CASE InsertDeclaration(w) \/ AddToDeclaration(w)
    <3>1. ChooseRegime(work[w].regime) /\ work[w].regime \in Regimes
      BY <2>1, TypeFacts DEF InsertDeclaration, AddToDeclaration, Call
    <3>. QED
      BY <1>0, <3>1, RegimeChosen DEF RegimeStays
  <2>2. CASE AmendDeclaration(w) \/ AddClaim(w) \/ EditClaim(w) \/ DropClaim(w) \/ JudgeClaim(w)
    BY <1>2, <2>2, Amended, ClaimAdded, ClaimRewritten
  <2>3. CASE WithdrawDeclaration(w)
    <3>. DEFINE x == FirstOf(BatchesOf(work[w].period))
    <3>1. batches' = IF work[w].last THEN [batches EXCEPT ![x].regime = "Unset"] ELSE batches
      BY <2>3 DEF WithdrawDeclaration
    <3>2. CASE ~ work[w].last
      BY <1>2, <3>1, <3>2
    <3>3. CASE work[w].last
      <4>1. x \in BatchesOf(work[w].period)
        <5>1. PICK S : S = BatchesOf(work[w].period)
          OBVIOUS
        <5>2. S \in SUBSET DOMAIN batches /\ batches \in Seq(Batch)
          BY <5>1 DEF BatchesOf, Live, TypeOK, TablesOK
        <5>3. FirstOf(S) # 0
          BY <2>3, <3>3, <5>1 DEF WithdrawDeclaration
        <5>. QED
          BY <5>1, <5>2, <5>3, FirstAndLast
      <4>2. batches[x].period = work[w].period
        BY <4>1 DEF BatchesOf
      <4>. HIDE DEF x
      <4>3. \A b \in DOMAIN batches : b # x => batches'[b] = batches[b]
        BY <3>1, <3>3
      <4>4. /\ work[w].at = "withdraw" /\ work[w].period = decls[work[w].id].period
            /\ Live(decls)' = Live(decls) \ {work[w].id} /\ DOMAIN decls' = DOMAIN decls
            /\ \A d \in DOMAIN decls : SameDecl(d)
            /\ raced' = raced \cup {d \in {work[w].id, 0} : w \notin fresh}
        BY <2>3, Withdrawn
      <4>5. w \in fresh => DeclsOf(work[w].period) = {work[w].id}
        BY <3>3, <4>4 DEF FreshInv, StillValid, MayWithdraw
      <4>6. w \in fresh => \A d \in DOMAIN decls' : decls'[d].live => decls'[d].period # work[w].period
        BY <4>4, <4>5 DEF DeclsOf, Live, SameDecl
      <4>7. w \notin fresh => 0 \in raced'
        BY <4>4
      <4>. QED
        BY <1>0, <4>2, <4>3, <4>6, <4>7 DEF RegimeStays
    <3>. QED
      BY <3>2, <3>3
  <2>. QED
    BY <1>5, <2>1, <2>2, <2>3 DEF Employee
<1>6. ASSUME NEW w \in Workers, Initiate(w) PROVE RegimeStays
  <2>1. \A b \in DOMAIN batches : batches'[b] = batches[b]
    <3>1. PICK p : batches' = batches \/ batches' = Append(batches, NewBatch(p))
      BY <1>6 DEF Initiate
    <3>2. batches \in Seq(Batch)
      BY DEF TypeOK, TablesOK
    <3>. QED
      BY <3>1, <3>2
  <2>. QED
    BY <1>0, <1>1, <2>1
<1>7. ASSUME NEW w \in Workers, AddBatch(w) PROVE RegimeStays
  <2>1. CASE Live(batches) = {}
    BY <2>1 DEF RegimeStays
  <2>2. CASE Live(batches) # {}
    BY <1>7, <2>2 DEF RegimeStays, AddBatch
  <2>. QED
    BY <2>1, <2>2
<1>8. ASSUME NEW w \in Workers, RemoveBatch(w) PROVE RegimeStays
  <2>1. batches' = [batches EXCEPT ![work[w].id].live = FALSE]
    BY <1>8 DEF RemoveBatch
  <2>2. \A b \in DOMAIN batches : batches'[b].regime = batches[b].regime
    BY <1>0, <2>1 DEF Batch
  <2>. QED
    BY <1>0, <1>1, <2>2
<1>9. ASSUME NEW w \in Workers, RemoveBatches(w) PROVE RegimeStays
  <2>1. \A b \in DOMAIN batches : batches'[b].regime = batches[b].regime
    BY <1>0, <1>9 DEF RemoveBatches, Batch
  <2>. QED
    BY <1>0, <1>1, <2>1
<1>10. ASSUME NEW w \in Workers, RemovePeriod(w) \/ RemoveTds(w) PROVE RegimeStays
  BY <1>2, <1>10 DEF RemovePeriod, RemoveTds
<1>. QED
  BY <1>2, <1>3, <1>4, <1>5, <1>6, <1>7, <1>8, <1>9, <1>10, StepKinds DEF Accounts

\* The regime an employee chose is forgotten only when no declaration of the period is left, unless
\* he is added again, or another call crossed the withdrawal.
THEOREM RegimeAlwaysKept == Spec => RegimeKept
<1>1. TypeOK /\ FreshInv /\ [Next]_vars => [RegimeStays]_vars
  BY RegimeStep
<1>2. Spec => [][RegimeStays]_vars
  BY <1>1, TypeCorrect, FreshCorrect, PTL DEF Spec
<1>. QED
  BY <1>2 DEF RegimeKept, RegimeStays
=============================================================================
