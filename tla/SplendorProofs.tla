-------------------------------- MODULE SplendorProofs ------------------------
(***************************************************************************)
(* Theorems about Splendor, for any players, mines, cards, slots and       *)
(* allies, and any limits.  First what is needed about sums: the fold they *)
(* are defined by takes any element first, so that it is defined for every *)
(* finite set, and that the order does not matter, has to be shown.        *)
(***************************************************************************)
EXTENDS Splendor, FiniteSetTheorems, SequenceTheorems, WellFoundedInduction, TLAPS

\* Induction over the subsets of a finite set: what holds of a set whenever it
\* holds of all smaller ones holds of all.
LEMMA SetInduction ==
    ASSUME NEW S, IsFiniteSet(S), NEW Good \in SUBSET SUBSET S,
           \A T \in SUBSET S : (\A U \in SUBSET T : U # T => U \in Good) => T \in Good
    PROVE  Good = SUBSET S
<1> DEFINE Bad == (SUBSET S) \ Good
<1> SUFFICES ASSUME Bad # {} PROVE FALSE
  OBVIOUS
<1>1. Bad \subseteq FiniteSubsetsOf(S)
  BY FS_Subset DEF FiniteSubsetsOf
<1>2. PICK T \in Bad : \A U \in Bad : <<U, T>> \notin StrictSubsetOrdering(S)
  <2>1. IsWellFoundedOn(StrictSubsetOrdering(S), FiniteSubsetsOf(S))
    BY FS_StrictSubsetOrderingWellFounded
  <2> HIDE DEF Bad
  <2> QED
    BY <1>1, <2>1, WFMin
<1>3. \A U \in SUBSET T : U # T => U \in Good
  BY <1>2 DEF StrictSubsetOrdering
<1> QED
  BY <1>3

\* The element a sum over s takes first, and the equation that a function g on
\* the subsets of S obeys if g[s] is the sum of f over s.
Pick(s) == CHOOSE x \in s : TRUE
IsSum(f, g, S) ==
    g = [s \in SUBSET S |-> IF s = {} THEN 0 ELSE f[Pick(s)] + g[s \ {Pick(s)}]]

LEMMA Picked == ASSUME NEW s, s # {} PROVE Pick(s) \in s
BY DEF Pick

LEMMA SumUnfold ==
    ASSUME NEW f, NEW S, NEW g, IsSum(f, g, S)
    PROVE  \E h : IsSum(f, h, S) /\ SumFunctionOnSet(f, S) = h[S]
<1> DEFINE P(h) == h = [s \in SUBSET S |->
                IF s = {} THEN 0 ELSE f[CHOOSE x \in s : TRUE] + h[s \ {CHOOSE x \in s : TRUE}]]
<1> DEFINE it == CHOOSE h : P(h)
<1>1. SumFunctionOnSet(f, S) = it[S]
  BY Zenon DEF SumFunctionOnSet, FoldFunctionOnSet, MapThenFoldSet
<1>2. P(g)
  BY DEF IsSum, Pick
<1> HIDE DEF P
<1>3. P(it)
  BY <1>2
<1> HIDE DEF it
<1>4. IsSum(f, it, S)
  BY <1>3 DEF IsSum, P, Pick
<1> QED
  BY <1>1, <1>4

\* Two such functions agree where both are defined.
LEMMA SumIsUnique ==
    ASSUME NEW f, NEW S, NEW T, IsFiniteSet(S), NEW g, IsSum(f, g, S), NEW h, IsSum(f, h, T)
    PROVE  \A s \in SUBSET S : s \subseteq T => g[s] = h[s]
<1> DEFINE Good == {s \in SUBSET S : s \subseteq T => g[s] = h[s]}
<1>1. ASSUME NEW s \in SUBSET S, \A u \in SUBSET s : u # s => u \in Good, s \subseteq T
      PROVE  g[s] = h[s]
  <2>1. CASE s = {}
    BY <2>1 DEF IsSum
  <2>2. CASE s # {}
    <3>1. Pick(s) \in s
      BY <2>2, Picked
    <3>2. s \ {Pick(s)} \in Good
      BY <1>1, <3>1
    <3>3. g[s] = f[Pick(s)] + g[s \ {Pick(s)}]
      BY <2>2 DEF IsSum
    <3>4. h[s] = f[Pick(s)] + h[s \ {Pick(s)}]
      BY <1>1, <2>2 DEF IsSum
    <3> QED
      BY <1>1, <3>2, <3>3, <3>4
  <2> QED
    BY <2>1, <2>2
<1>2. Good = SUBSET S
  <2> HIDE DEF Good
  <2>1. \A s \in SUBSET S : (\A u \in SUBSET s : u # s => u \in Good) => s \in Good
    BY <1>1 DEF Good
  <2>2. Good \in SUBSET SUBSET S
    BY DEF Good
  <2> QED
    BY <2>1, <2>2, SetInduction
<1> QED
  BY <1>2

\* There is one for every finite set: the sums of the smaller sets are put
\* together.
LEMMA SumExists ==
    ASSUME NEW f, NEW S, IsFiniteSet(S)
    PROVE  \E g : IsSum(f, g, S)
<1> DEFINE Good == {T \in SUBSET S : \E g : IsSum(f, g, T)}
<1> DEFINE The(T) == CHOOSE g : IsSum(f, g, T)
<1>0. \A T \in Good : IsSum(f, The(T), T)
  OBVIOUS
<1>1. ASSUME NEW T \in SUBSET S, \A U \in SUBSET T : U # T => U \in Good
      PROVE  \E g : IsSum(f, g, T)
  <2> DEFINE val == [s \in (SUBSET T) \ {T} |-> The(s)[s]]
  <2> DEFINE g == [s \in SUBSET T |->
                     IF s = {} THEN 0
                     ELSE IF s = T THEN f[Pick(T)] + val[T \ {Pick(T)}] ELSE val[s]]
  <2>1. ASSUME NEW s \in SUBSET T
        PROVE  g[s] = IF s = {} THEN 0 ELSE f[Pick(s)] + g[s \ {Pick(s)}]
    <3>1. CASE s = {}
      BY <3>1
    <3>2. ASSUME NEW u \in SUBSET T, u # T PROVE g[u] = val[u]
      <4>1. CASE u # {}
        BY <3>2, <4>1
      <4>2. CASE u = {}
        <5>1. IsSum(f, The(u), u)
          BY <1>0, <1>1, <3>2
        <5> HIDE DEF The
        <5>2. The(u)[u] = 0
          BY <4>2, <5>1 DEF IsSum
        <5> QED
          BY <3>2, <4>2, <5>2
      <4> QED
        BY <4>1, <4>2
    <3>3. CASE s # {}
      <4>1. Pick(s) \in s /\ s \ {Pick(s)} \in SUBSET T /\ s \ {Pick(s)} # T
            /\ s \ {Pick(s)} # s
        BY <3>3, Picked
      <4>2. g[s \ {Pick(s)}] = val[s \ {Pick(s)}]
        BY <3>2, <4>1
      <4>3. CASE s = T
        BY <3>3, <4>2, <4>3
      <4>4. CASE s # T
        <5> DEFINE r == s \ {Pick(s)}
        <5>1. IsSum(f, The(s), s) /\ IsSum(f, The(r), r)
          BY <1>0, <1>1, <4>1, <4>4
        <5>a. IsFiniteSet(r) /\ r \subseteq s
          BY FS_Subset
        <5> HIDE DEF The
        <5>b. \A u \in SUBSET r : u \subseteq s => The(r)[u] = The(s)[u]
          <6> HIDE DEF r
          <6> QED
            BY ONLY <5>1, <5>a, SumIsUnique
        <5>2. The(r)[r] = The(s)[r]
          BY <5>a, <5>b
        <5>3. The(s)[s] = f[Pick(s)] + The(s)[r]
          BY <3>3, <5>1 DEF IsSum
        <5>4. val[s] = The(s)[s] /\ val[r] = The(r)[r]
          BY <4>1, <4>4
        <5>5. g[s] = val[s]
          BY <3>2, <4>4
        <5> HIDE DEF g, val
        <5> QED
          BY <3>3, <4>2, <5>2, <5>3, <5>4, <5>5
      <4> QED
        BY <4>3, <4>4
    <3> QED
      BY <3>1, <3>3
  <2>2. IsSum(f, g, T)
    <3>1. g = [s \in SUBSET T |-> g[s]]
      OBVIOUS
    <3> HIDE DEF g
    <3> QED
      BY <2>1, <3>1 DEF IsSum
  <2> QED
    BY <2>2
<1>2. Good = SUBSET S
  <2> HIDE DEF Good
  <2>1. \A T \in SUBSET S : (\A U \in SUBSET T : U # T => U \in Good) => T \in Good
    BY <1>1 DEF Good
  <2>2. Good \in SUBSET SUBSET S
    BY DEF Good
  <2> QED
    BY <2>1, <2>2, SetInduction
<1> QED
  BY <1>2

\* One step of the recursion.
LEMMA SumSteps ==
    ASSUME NEW f, NEW S, IsFiniteSet(S)
    PROVE  SumFunctionOnSet(f, S)
             = IF S = {} THEN 0 ELSE f[Pick(S)] + SumFunctionOnSet(f, S \ {Pick(S)})
<1>1. PICK h : IsSum(f, h, S) /\ SumFunctionOnSet(f, S) = h[S]
  BY SumExists, SumUnfold
<1> DEFINE R == S \ {Pick(S)}
<1>2. IsFiniteSet(R) /\ R \subseteq S
  BY FS_Subset
<1>3. PICK k : IsSum(f, k, R) /\ SumFunctionOnSet(f, R) = k[R]
  BY <1>2, SumExists, SumUnfold
<1>4. k[R] = h[R]
  BY <1>1, <1>2, <1>3, SumIsUnique
<1>5. h[S] = IF S = {} THEN 0 ELSE f[Pick(S)] + h[R]
  BY <1>1 DEF IsSum
<1> QED
  BY <1>1, <1>3, <1>4, <1>5

\* Any element may be taken first.
LEMMA SumRemove ==
    ASSUME NEW f, NEW S, IsFiniteSet(S), \A x \in S : f[x] \in Int
    PROVE  /\ SumFunctionOnSet(f, S) \in Int
           /\ \A x \in S : SumFunctionOnSet(f, S) = f[x] + SumFunctionOnSet(f, S \ {x})
<1> DEFINE Sum(T) == SumFunctionOnSet(f, T)
<1> DEFINE Good == {T \in SUBSET S : /\ Sum(T) \in Int
                                     /\ \A x \in T : Sum(T) = f[x] + Sum(T \ {x})}
<1>0. \A T \in SUBSET S : Sum(T) = IF T = {} THEN 0 ELSE f[Pick(T)] + Sum(T \ {Pick(T)})
  BY SumSteps, FS_Subset
<1> HIDE DEF Sum
<1>1. ASSUME NEW T \in SUBSET S, \A U \in SUBSET T : U # T => U \in Good
      PROVE  T \in Good
  <2>1. CASE T = {}
    BY <1>0, <2>1
  <2>2. CASE T # {}
    <3> DEFINE y == Pick(T)
    <3>1. y \in T
      BY <2>2, Picked
    <3> HIDE DEF y
    <3>2. Sum(T) = f[y] + Sum(T \ {y})
      BY <1>0, <2>2 DEF y
    <3>3. T \ {y} \in Good
      BY <1>1, <3>1
    <3>4. Sum(T) \in Int
      BY <3>1, <3>2, <3>3
    <3>5. ASSUME NEW x \in T, x # y
          PROVE  Sum(T) = f[x] + Sum(T \ {x})
      <4> DEFINE R == (T \ {x}) \ {y}
      <4>1. T \ {x} \in Good
        BY <1>1
      <4>2. Sum(T \ {x}) = f[y] + Sum(R)
        BY <3>1, <3>5, <4>1
      <4>3. (T \ {y}) \ {x} = R
        OBVIOUS
      <4>4. Sum(T \ {y}) = f[x] + Sum(R)
        BY <3>3, <3>5, <4>3
      <4>5. R \in Good
        BY <1>1, <3>1
      <4>6. f[x] \in Int /\ f[y] \in Int /\ Sum(R) \in Int
        BY <3>1, <4>5
      <4> QED
        BY <3>2, <4>2, <4>4, <4>6
    <3> QED
      BY <3>2, <3>4, <3>5
  <2> QED
    BY <2>1, <2>2
<1>2. Good = SUBSET S
  <2> HIDE DEF Good
  <2>2. Good \in SUBSET SUBSET S
    BY DEF Good
  <2> QED
    BY <1>1, <2>2, SetInduction
<1> QED
  BY <1>2 DEF Sum

\* Values elsewhere do not matter.
LEMMA SumExtensional ==
    ASSUME NEW f, NEW g, NEW S, IsFiniteSet(S), \A x \in S : f[x] = g[x]
    PROVE  SumFunctionOnSet(f, S) = SumFunctionOnSet(g, S)
<1> DEFINE Good == {T \in SUBSET S : SumFunctionOnSet(f, T) = SumFunctionOnSet(g, T)}
<1>1. ASSUME NEW T \in SUBSET S, \A U \in SUBSET T : U # T => U \in Good
      PROVE  T \in Good
  <2>0. IsFiniteSet(T)
    BY FS_Subset
  <2>1. CASE T = {}
    BY <2>0, <2>1, SumSteps
  <2>2. CASE T # {}
    <3>1. Pick(T) \in T
      BY <2>2, Picked
    <3>2. T \ {Pick(T)} \in Good /\ f[Pick(T)] = g[Pick(T)]
      BY <1>1, <3>1
    <3> QED
      BY <2>0, <2>2, <3>2, SumSteps
  <2> QED
    BY <2>1, <2>2
<1>2. Good = SUBSET S
  <2> HIDE DEF Good
  <2>2. Good \in SUBSET SUBSET S
    BY DEF Good
  <2> QED
    BY <1>1, <2>2, SetInduction
<1> QED
  BY <1>2

\* A sum of more is more.
LEMMA SumMonotone ==
    ASSUME NEW f, NEW g, NEW S, IsFiniteSet(S),
           \A x \in S : f[x] \in Int /\ g[x] \in Int /\ f[x] <= g[x]
    PROVE  SumFunctionOnSet(f, S) <= SumFunctionOnSet(g, S)
<1> DEFINE Good == {T \in SUBSET S : SumFunctionOnSet(f, T) <= SumFunctionOnSet(g, T)}
<1>1. ASSUME NEW T \in SUBSET S, \A U \in SUBSET T : U # T => U \in Good
      PROVE  T \in Good
  <2>0. IsFiniteSet(T)
    BY FS_Subset
  <2>1. CASE T = {}
    <3>1. SumFunctionOnSet(f, T) = 0 /\ SumFunctionOnSet(g, T) = 0
      BY <2>0, <2>1, SumSteps
    <3> QED
      BY <3>1
  <2>2. CASE T # {}
    <3> DEFINE x == Pick(T)
    <3> DEFINE R == T \ {x}
    <3>1. x \in T
      BY <2>2, Picked
    <3>2. SumFunctionOnSet(f, R) <= SumFunctionOnSet(g, R) /\ f[x] <= g[x]
          /\ f[x] \in Int /\ g[x] \in Int
      BY <1>1, <3>1
    <3>3. /\ SumFunctionOnSet(f, T) = f[x] + SumFunctionOnSet(f, R)
          /\ SumFunctionOnSet(g, T) = g[x] + SumFunctionOnSet(g, R)
      BY <2>0, <2>2, SumSteps
    <3>4. SumFunctionOnSet(f, R) \in Int /\ SumFunctionOnSet(g, R) \in Int
      <4>1. IsFiniteSet(R) /\ R \subseteq S
        BY <2>0, FS_Subset
      <4> QED
        BY <4>1, SumRemove
    <3>5. SumFunctionOnSet(f, T) <= SumFunctionOnSet(g, T)
      <4> HIDE DEF x, R
      <4> QED
        BY <3>2, <3>3, <3>4
    <3> QED
      BY <3>5
  <2> QED
    BY <2>1, <2>2
<1>2. Good = SUBSET S
  <2> HIDE DEF Good
  <2>2. Good \in SUBSET SUBSET S
    BY DEF Good
  <2> QED
    BY <1>1, <2>2, SetInduction
<1> QED
  BY <1>2

\* Changing the summand of one element changes the sum by as much.
LEMMA SumPoint ==
    ASSUME NEW f, NEW g, NEW S, IsFiniteSet(S), NEW x \in S,
           \A y \in S : f[y] \in Int /\ g[y] \in Int,
           \A y \in S \ {x} : f[y] = g[y]
    PROVE  SumFunctionOnSet(g, S) = SumFunctionOnSet(f, S) + (g[x] - f[x])
<1> DEFINE R == S \ {x}
<1>1. IsFiniteSet(R)
  BY FS_Subset
<1>2. SumFunctionOnSet(f, R) = SumFunctionOnSet(g, R)
  BY <1>1, SumExtensional
<1>3. SumFunctionOnSet(f, R) \in Int
  BY <1>1, SumRemove
<1>4. /\ SumFunctionOnSet(f, S) = f[x] + SumFunctionOnSet(f, R)
      /\ SumFunctionOnSet(g, S) = g[x] + SumFunctionOnSet(g, R)
  BY SumRemove
<1> QED
  BY <1>2, <1>3, <1>4

\* The sum over two sets that share nothing.
LEMMA SumDisjoint ==
    ASSUME NEW f, NEW S, IsFiniteSet(S), \A x \in S : f[x] \in Int,
           NEW A \in SUBSET S, NEW B \in SUBSET S, A \cap B = {}
    PROVE  SumFunctionOnSet(f, A \cup B) = SumFunctionOnSet(f, A) + SumFunctionOnSet(f, B)
<1> DEFINE Sum(T) == SumFunctionOnSet(f, T)
<1>0. \A T \in SUBSET S : /\ Sum(T) \in Int
                          /\ \A x \in T : Sum(T) = f[x] + Sum(T \ {x})
  BY SumRemove, FS_Subset
<1>e. Sum({}) = 0
  BY SumSteps, FS_EmptySet
<1> HIDE DEF Sum
<1> DEFINE Good == {T \in SUBSET S : A \cap T = {} => Sum(A \cup T) = Sum(A) + Sum(T)}
<1>1. ASSUME NEW T \in SUBSET S, \A U \in SUBSET T : U # T => U \in Good
      PROVE  T \in Good
  <2> SUFFICES ASSUME A \cap T = {} PROVE Sum(A \cup T) = Sum(A) + Sum(T)
    OBVIOUS
  <2>1. CASE T = {}
    <3>1. A \cup T = A
      BY <2>1
    <3> QED
      BY <1>0, <1>e, <2>1, <3>1
  <2>2. CASE T # {}
    <3>1. PICK x : x \in T
      BY <2>2
    <3> DEFINE R == T \ {x}
    <3>2. Sum(A \cup R) = Sum(A) + Sum(R)
      BY <1>1, <3>1
    <3>3. (A \cup T) \ {x} = A \cup R /\ A \cup T \in SUBSET S
      BY <3>1
    <3>4. Sum(A \cup T) = f[x] + Sum(A \cup R)
      BY <1>0, <3>1, <3>3
    <3>5. Sum(T) = f[x] + Sum(R)
      BY <1>0, <3>1
    <3>6. Sum(A) \in Int /\ Sum(R) \in Int /\ f[x] \in Int
      BY <1>0, <3>1
    <3> HIDE DEF R
    <3> QED
      BY <3>2, <3>4, <3>5, <3>6
  <2> QED
    BY <2>1, <2>2
<1>2. Good = SUBSET S
  <2> HIDE DEF Good
  <2>2. Good \in SUBSET SUBSET S
    BY DEF Good
  <2> QED
    BY <1>1, <2>2, SetInduction
<1> QED
  BY <1>2 DEF Sum

\* A sum of natural numbers is one.
LEMMA SumNatural ==
    ASSUME NEW f, NEW S, IsFiniteSet(S), \A x \in S : f[x] \in Nat
    PROVE  SumFunctionOnSet(f, S) \in Nat
<1> DEFINE Good == {T \in SUBSET S : SumFunctionOnSet(f, T) \in Nat}
<1>1. ASSUME NEW T \in SUBSET S, \A U \in SUBSET T : U # T => U \in Good
      PROVE  T \in Good
  <2>0. IsFiniteSet(T)
    BY FS_Subset
  <2>1. CASE T = {}
    <3>1. SumFunctionOnSet(f, T) = 0
      BY <2>0, <2>1, SumSteps
    <3> QED
      BY <3>1
  <2>2. CASE T # {}
    <3>1. Pick(T) \in T
      BY <2>2, Picked
    <3>2. SumFunctionOnSet(f, T \ {Pick(T)}) \in Nat /\ f[Pick(T)] \in Nat
      BY <1>1, <3>1
    <3>3. SumFunctionOnSet(f, T) = f[Pick(T)] + SumFunctionOnSet(f, T \ {Pick(T)})
      BY <2>0, <2>2, SumSteps
    <3>4. SumFunctionOnSet(f, T) \in Nat
      BY <3>2, <3>3
    <3> QED
      BY <3>4
  <2> QED
    BY <2>1, <2>2
<1>2. Good = SUBSET S
  <2> HIDE DEF Good
  <2>2. Good \in SUBSET SUBSET S
    BY DEF Good
  <2> QED
    BY <1>1, <2>2, SetInduction
<1> QED
  BY <1>2

\* A sum of zeros is zero.
LEMMA SumZero ==
    ASSUME NEW f, NEW S, IsFiniteSet(S), \A x \in S : f[x] = 0
    PROVE  SumFunctionOnSet(f, S) = 0
<1> DEFINE Good == {T \in SUBSET S : SumFunctionOnSet(f, T) = 0}
<1>1. ASSUME NEW T \in SUBSET S, \A U \in SUBSET T : U # T => U \in Good
      PROVE  T \in Good
  <2>0. IsFiniteSet(T)
    BY FS_Subset
  <2>1. CASE T = {}
    <3>1. SumFunctionOnSet(f, T) = 0
      BY <2>0, <2>1, SumSteps
    <3> QED
      BY <3>1
  <2>2. CASE T # {}
    <3>1. Pick(T) \in T
      BY <2>2, Picked
    <3>2. SumFunctionOnSet(f, T \ {Pick(T)}) = 0 /\ f[Pick(T)] = 0
      BY <1>1, <3>1
    <3>3. SumFunctionOnSet(f, T) = f[Pick(T)] + SumFunctionOnSet(f, T \ {Pick(T)})
      BY <2>0, <2>2, SumSteps
    <3>4. SumFunctionOnSet(f, T) = 0
      BY <3>2, <3>3
    <3> QED
      BY <3>4
  <2> QED
    BY <2>1, <2>2
<1>2. Good = SUBSET S
  <2> HIDE DEF Good
  <2>2. Good \in SUBSET SUBSET S
    BY DEF Good
  <2> QED
    BY <1>1, <2>2, SetInduction
<1> QED
  BY <1>2

--------------------------------------------------------------------------------
USE SplendorAssumption

\* The players are finitely many, and the next one is another.
LEMMA PlayersInOrder ==
    /\ IsFiniteSet(Players) /\ IsFiniteSet(Tokens) /\ Len(Order) \in Nat
    /\ \A i \in DOMAIN Order : Order[i] \in Players
    /\ \A p \in Players : NextPlayer(p) \in Players /\ NextPlayer(p) # p
<1>1. DOMAIN Order = 1..Len(Order) /\ Len(Order) \in {2, 3, 4}
  OBVIOUS
<1>2. \A i \in DOMAIN Order : Order[i] \in Players
  BY DEF Players
<1>3. IsFiniteSet(Players)
  <2>1. IsFiniteSet(DOMAIN Order)
    <3>1. 1 \in Int /\ Len(Order) \in Int
      BY <1>1
    <3> QED
      BY ONLY <1>1, <3>1, FS_Interval
  <2>2. Order \in Surjection(DOMAIN Order, Players)
    BY <1>2 DEF Surjection, Players
  <2> QED
    BY <2>1, <2>2, FS_Surjection
<1>4. IsFiniteSet(Tokens)
  BY FS_AddElement DEF Tokens
<1>5. ASSUME NEW p \in Players PROVE NextPlayer(p) \in Players /\ NextPlayer(p) # p
  <2> DEFINE i == CHOOSE i \in DOMAIN Order : Order[i] = p
  <2>1. i \in DOMAIN Order /\ Order[i] = p
    BY DEF Players
  <2>2. NextPlayer(p) = Order[(i % Len(Order)) + 1]
    BY DEF NextPlayer
  <2> HIDE DEF i
  <2>3. (i % Len(Order)) + 1 \in DOMAIN Order /\ (i % Len(Order)) + 1 # i
    <3>1. CASE Len(Order) = 2
      BY <1>1, <2>1, <3>1
    <3>2. CASE Len(Order) = 3
      BY <1>1, <2>1, <3>2
    <3>3. CASE Len(Order) = 4
      BY <1>1, <2>1, <3>3
    <3> QED
      BY <1>1, <3>1, <3>2, <3>3
  <2> QED
    BY <1>2, <2>1, <2>2, <2>3
<1> QED
  BY <1>1, <1>2, <1>3, <1>4, <1>5

\* What a card is.
LEMMA Cards ==
    ASSUME NEW c \in Coupons
    PROVE  c.reputation \in Nat /\ c.costs \in [Mines -> Nat] /\ c.type \in Mines
OBVIOUS

\* The reputation of a set of cards, or of allies.
LEMMA WorthAdds ==
    ASSUME NEW U \in {Coupons, Allies}
    PROVE  /\ Worth({}) = 0
           /\ \A S \in SUBSET U : Worth(S) \in Nat
           /\ \A x \in U : Worth({x}) = x.reputation
           /\ \A A, B \in SUBSET U : A \cap B = {} => Worth(A \cup B) = Worth(A) + Worth(B)
<1> DEFINE F == [x \in U |-> x.reputation]
<1>1. IsFiniteSet(U) /\ \A x \in U : F[x] = x.reputation /\ F[x] \in Nat
  OBVIOUS
<1>2. ASSUME NEW S \in SUBSET U PROVE Worth(S) = SumFunctionOnSet(F, S)
  <2> DEFINE f == [x \in S |-> x.reputation]
  <2>1. Worth(S) = SumFunctionOnSet(f, S)
    BY DEF Worth, SumFunction
  <2>2. IsFiniteSet(S) /\ \A x \in S : f[x] = F[x]
    BY <1>1, FS_Subset
  <2> HIDE DEF f, F
  <2> QED
    BY <2>1, <2>2, SumExtensional
<1> HIDE DEF F
<1>3. Worth({}) = 0
  BY <1>2, SumSteps, FS_EmptySet
<1>4. \A S \in SUBSET U : Worth(S) \in Nat
  BY <1>1, <1>2, SumNatural, FS_Subset
<1>5. ASSUME NEW x \in U PROVE Worth({x}) = x.reputation
  <2>1. IsFiniteSet({x}) /\ \A y \in {x} : F[y] \in Int
    BY <1>1, FS_Subset
  <2>2. SumFunctionOnSet(F, {x}) = F[x] + SumFunctionOnSet(F, {x} \ {x})
    BY <2>1, SumRemove
  <2>3. SumFunctionOnSet(F, {x} \ {x}) = 0
    BY <1>2, <1>3
  <2> QED
    BY <1>1, <1>2, <2>2, <2>3
<1>6. ASSUME NEW A \in SUBSET U, NEW B \in SUBSET U, A \cap B = {}
      PROVE  Worth(A \cup B) = Worth(A) + Worth(B)
  <2>a. IsFiniteSet(U) /\ \A x \in U : F[x] \in Int
    BY <1>1
  <2>1. SumFunctionOnSet(F, A \cup B) = SumFunctionOnSet(F, A) + SumFunctionOnSet(F, B)
    BY ONLY <1>6, <2>a, SumDisjoint
  <2> QED
    BY <1>2, <2>1
<1> QED
  BY <1>3, <1>4, <1>5, <1>6

--------------------------------------------------------------------------------
\* The end of a turn: it passes to the next player, or the player keeps it to
\* return a token.  Turns and hands stay right if only that player's tokens have
\* changed.
LEMMA TurnInv ==
    ASSUME TypeOK, OneTurn, HandLimit, NEW p \in Players, status[p] # "WAITING",
           \A q \in Players \ {p} : mine_count'[q] = mine_count[q],
           status' = StatusAfterTaking(p, mine_count'[p])
    PROVE  /\ OneTurn' /\ HandLimit'
           /\ status' \in [Players -> {"WAITING", "ACTION", "NEED_RETURN_MINE"}]
<1> DEFINE Total(q) == total_mine_count(mine_count[q])
<1> DEFINE full == total_mine_count(mine_count'[p]) > TokenLimit
<1> DEFINE n == NextPlayer(p)
<1>1. status \in [Players -> {"WAITING", "ACTION", "NEED_RETURN_MINE"}]
  BY DEF TypeOK
<1>2. n \in Players /\ n # p
  BY PlayersInOrder
<1>3. \A q \in Players \ {p} : status[q] = "WAITING"
  BY DEF OneTurn
<1>4. \A q \in Players \ {p} : ~(Total(q) > TokenLimit)
  BY <1>3 DEF HandLimit
<1>5. \A q \in Players \ {p} : total_mine_count(mine_count'[q]) = Total(q)
  OBVIOUS
<1>6. status' = IF full THEN [status EXCEPT ![p] = "NEED_RETURN_MINE"] ELSE PassTurn(p)
  BY DEF StatusAfterTaking
<1>7. PassTurn(p) = [status EXCEPT ![p] = "WAITING", ![n] = "ACTION"]
  BY DEF PassTurn
<1> HIDE DEF Total, full, n
<1>8. status' \in [Players -> {"WAITING", "ACTION", "NEED_RETURN_MINE"}]
  BY <1>1, <1>2, <1>6, <1>7
<1>9. CASE full
  <2>1. /\ status'[p] = "NEED_RETURN_MINE"
        /\ \A q \in Players \ {p} : status'[q] = "WAITING"
    BY <1>1, <1>3, <1>6, <1>9
  <2>2. OneTurn'
    BY <2>1 DEF OneTurn
  <2>3. HandLimit'
    BY <1>4, <1>5, <1>9, <2>1 DEF HandLimit, full
  <2> QED
    BY <1>8, <2>2, <2>3
<1>10. CASE ~full
  <2>1. /\ status'[n] = "ACTION"
        /\ \A q \in Players \ {n} : status'[q] = "WAITING"
    BY <1>1, <1>2, <1>3, <1>6, <1>7, <1>10
  <2>2. OneTurn'
    BY <1>2, <2>1 DEF OneTurn
  <2>3. HandLimit'
    BY <1>4, <1>5, <1>10, <2>1 DEF HandLimit, full
  <2> QED
    BY <1>8, <2>2, <2>3
<1> QED
  BY <1>9, <1>10

\* Tokens that pass between the bank and one player are neither made nor lost.
LEMMA TokensInv ==
    ASSUME TypeOK, TokensConserved, NEW p \in Players, NEW counts \in [Tokens -> Int],
           mine_count' = [mine_count EXCEPT ![p] = counts], bank' \in [Tokens -> Int],
           \A m \in Tokens : /\ counts[m] + bank'[m] = mine_count[p][m] + bank[m]
                             /\ counts[m] >= 0 /\ bank'[m] >= 0
    PROVE  TokensConserved' /\ mine_count' \in [Players -> [Tokens -> Int]]
<1>1. mine_count \in [Players -> [Tokens -> Int]] /\ bank \in [Tokens -> Int]
  BY DEF TypeOK
<1>2. /\ mine_count' \in [Players -> [Tokens -> Int]] /\ mine_count'[p] = counts
      /\ \A q \in Players \ {p} : mine_count'[q] = mine_count[q]
  BY <1>1
<1>3. ASSUME NEW m \in Tokens
      PROVE  /\ bank'[m] + SumFunction([q \in Players |-> mine_count'[q][m]]) = FreshBank[m]
             /\ bank'[m] >= 0 /\ \A q \in Players : mine_count'[q][m] >= 0
  <2> DEFINE f == [q \in Players |-> mine_count[q][m]]
  <2> DEFINE g == [q \in Players |-> mine_count'[q][m]]
  <2>1. \A q \in Players : f[q] \in Int /\ g[q] \in Int
    BY <1>1, <1>2
  <2>2. \A q \in Players \ {p} : f[q] = g[q]
    BY <1>2
  <2>3. DOMAIN f = Players /\ DOMAIN g = Players /\ f[p] = mine_count[p][m] /\ g[p] = counts[m]
    BY <1>2
  <2>4. bank[m] + SumFunction(f) = FreshBank[m]
    BY DEF TokensConserved
  <2>a. \A q \in Players \ {p} : mine_count[q][m] >= 0
    BY DEF TokensConserved
  <2> HIDE DEF f, g
  <2>b. IsFiniteSet(Players)
    BY PlayersInOrder
  <2>c. \A q \in Players : f[q] \in Int
    BY <2>1
  <2>d. SumFunction(f) = SumFunctionOnSet(f, Players) /\ SumFunction(g) = SumFunctionOnSet(g, Players)
    BY <2>3 DEF SumFunction
  <2>5. SumFunctionOnSet(g, Players) = SumFunctionOnSet(f, Players) + (g[p] - f[p])
    BY ONLY p \in Players, <2>1, <2>2, <2>b, SumPoint
  <2>6. SumFunctionOnSet(f, Players) \in Int
    BY ONLY <2>b, <2>c, SumRemove
  <2>7. bank'[m] + SumFunction(g) = FreshBank[m]
    <3> DEFINE sf == SumFunctionOnSet(f, Players)
    <3> DEFINE fb == FreshBank[m]
    <3>1. /\ counts[m] + bank'[m] = mine_count[p][m] + bank[m]
          /\ counts[m] \in Int /\ bank'[m] \in Int /\ mine_count[p][m] \in Int /\ bank[m] \in Int
      BY <1>1
    <3>2. SumFunction(g) = sf + (counts[m] - mine_count[p][m]) /\ bank[m] + sf = fb
      BY <2>3, <2>4, <2>5, <2>d
    <3>3. sf \in Int
      BY <2>6
    <3> HIDE DEF sf, fb
    <3>4. bank'[m] + (sf + (counts[m] - mine_count[p][m])) = bank[m] + sf
      BY ONLY <3>1, <3>3
    <3>5. bank'[m] + SumFunction(g) = fb
      BY <3>2, <3>4
    <3> QED
      BY <3>5 DEF fb
  <2>8. \A q \in Players : mine_count'[q][m] >= 0
    BY <1>2, <2>a
  <2> QED
    BY <2>7, <2>8 DEF g
<1> QED
  BY <1>2, <1>3 DEF TokensConserved, FreshBank

\* What a move that neither buys nor reserves leaves alone.
LEMMA CardsKept ==
    ASSUME IInv, UNCHANGED <<coupons, coupons_rest, owner, coupon_count, reserved, bought,
                             reputation, is_game_on>>
    PROVE  CardInOnePlace' /\ NoOvertime' /\ AlliesAreAwarded' /\ BoughtAreCards'
<1>1. \A c : Places(c)' = Places(c)
  BY DEF Places
<1>2. CardInOnePlace'
  BY <1>1 DEF IInv, CardInOnePlace
<1>3. NoOvertime'
  BY DEF IInv, NoOvertime, Earned
<1>4. AlliesAreAwarded' /\ BoughtAreCards'
  BY DEF IInv, AlliesAreAwarded, BoughtAreCards
<1> QED
  BY <1>2, <1>3, <1>4

\* The invariant holds in the beginning: a card is dealt or in the deck.
LEMMA InitInv == Init => IInv
<1> SUFFICES ASSUME Init PROVE IInv
  OBVIOUS
<1>1. /\ coupons \in [Slots -> Coupons] /\ coupons_rest = Coupons \ {coupons[s] : s \in Slots}
      /\ \A s, t \in Slots : coupons[s] = coupons[t] => s = t
  BY DEF Init, Deals
<1>2. mine_count = NoTokens /\ NoTokens \in [Players -> [Tokens -> Int]]
  BY DEF Init, NoTokens
<1>3. PICK first \in Players : status = FreshStatus(first)
  BY DEF Init
<1>4. IsFiniteSet(Players) /\ IsFiniteSet(Tokens)
  BY PlayersInOrder
<1>5. TypeOK
  <2>1. bank \in [Tokens -> Int]
    BY DEF Init, FreshBank
  <2>2. owner \in [Allies -> Players \cup {NOBODY}] /\ coupon_count \in [Players -> [Mines -> Nat]]
    BY DEF Init, NoDiscounts
  <2>3. /\ reserved \in [Players -> Seq(Coupons \cup {EMPTY})]
        /\ \A p \in Players : Len(reserved[p]) <= ReserveLimit
    BY DEF Init
  <2>4. bought \in [Players -> SUBSET (Coupons \cup {EMPTY})] /\ reputation \in [Players -> Int]
    BY DEF Init
  <2>5. status \in [Players -> {"WAITING", "ACTION", "NEED_RETURN_MINE"}]
    BY <1>3 DEF FreshStatus
  <2> QED
    BY <1>1, <1>2, <2>1, <2>2, <2>3, <2>4, <2>5 DEF Init, TypeOK
<1>6. OneTurn
  BY <1>3 DEF OneTurn, FreshStatus
<1>7. TokensConserved
  <2> SUFFICES ASSUME NEW m \in Tokens
               PROVE  /\ bank[m] + SumFunction([p \in Players |-> mine_count[p][m]]) = FreshBank[m]
                      /\ bank[m] >= 0 /\ \A p \in Players : mine_count[p][m] >= 0
    BY DEF TokensConserved
  <2> DEFINE f == [p \in Players |-> mine_count[p][m]]
  <2>1. \A p \in Players : f[p] = 0
    BY <1>2 DEF NoTokens
  <2>2. DOMAIN f = Players
    OBVIOUS
  <2>a. FreshBank[m] \in Nat /\ bank = FreshBank
    BY DEF Init, FreshBank
  <2>b. \A p \in Players : mine_count[p][m] >= 0
    BY <1>2 DEF NoTokens
  <2> HIDE DEF f
  <2>3. SumFunction(f) = 0
    BY <1>4, <2>1, <2>2, SumZero DEF SumFunction
  <2> QED
    BY <2>3, <2>a, <2>b DEF f
<1>8. HandLimit
  <2> SUFFICES ASSUME NEW p \in Players
               PROVE  ~(total_mine_count(mine_count[p]) > TokenLimit)
    BY <1>3 DEF HandLimit, FreshStatus
  <2>1. /\ DOMAIN mine_count[p] = Tokens
        /\ \A m \in Tokens : mine_count[p][m] = 0
    BY <1>2 DEF NoTokens
  <2>2. total_mine_count(mine_count[p]) = 0
    BY <1>4, <2>1, SumZero DEF total_mine_count, SumFunction
  <2> QED
    BY <2>2
<1>9. CardInOnePlace
  <2> SUFFICES ASSUME NEW c \in Coupons PROVE \E x \in Places(c) : Places(c) = {x}
    BY DEF CardInOnePlace
  <2>0. /\ {x \in {"reserved"} \X Players \X (1..ReserveLimit) :
                x[3] \in DOMAIN reserved[x[2]] /\ reserved[x[2]][x[3]] = c} = {}
        /\ {p \in Players : c \in bought[p]} = {}
    BY DEF Init
  <2>1. CASE c \in coupons_rest
    <3>1. {s \in Slots : coupons[s] = c} = {}
      BY <1>1, <2>1
    <3>2. Places(c) = {<<"deck">>}
      BY <2>0, <2>1, <3>1 DEF Places
    <3> QED
      BY <3>2
  <2>2. CASE c \notin coupons_rest
    <3>1. PICK s \in Slots : coupons[s] = c
      BY <1>1, <2>2
    <3>2. {t \in Slots : coupons[t] = c} = {s}
      BY <1>1, <3>1
    <3>3. Places(c) = {<<"slot", s>>}
      BY <2>0, <2>2, <3>2 DEF Places
    <3> QED
      BY <3>3
  <2> QED
    BY <2>1, <2>2
<1>10. NoOvertime
  <2> SUFFICES ASSUME NEW p \in Players
               PROVE  reputation[p] = Earned(p) /\ reputation[p] < WinningReputation
    BY DEF NoOvertime
  <2>1. bought[p] = {} /\ {a \in Allies : owner[a] = p} = {} /\ reputation[p] = 0
    BY DEF Init
  <2>2. Worth({}) = 0
    BY WorthAdds, Coupons \in {Coupons, Allies}
  <2>3. Earned(p) = 0
    <3>1. Earned(p) = Worth(bought[p]) + Worth({a \in Allies : owner[a] = p})
      BY DEF Earned
    <3>2. Earned(p) = Worth({}) + Worth({})
      BY <2>1, <3>1
    <3> QED
      BY <2>2, <3>2
  <2>4. WinningReputation \in Nat /\ WinningReputation > 0
    OBVIOUS
  <2> QED
    BY ONLY <2>1, <2>3, <2>4
<1>11. AlliesAreAwarded /\ BoughtAreCards
  <2> SUFFICES ASSUME NEW a \in Allies, NEW p \in Players PROVE ~Meets(coupon_count[p], a)
    BY DEF AlliesAreAwarded, BoughtAreCards, Init
  <2>1. PICK m \in Mines : a.condition[m] > 0
    OBVIOUS
  <2>2. coupon_count[p][m] = 0
    BY DEF Init, NoDiscounts
  <2>3. a.condition[m] \in Nat
    OBVIOUS
  <2> QED
    BY <2>1, <2>2, <2>3 DEF Meets
<1> QED
  BY <1>5, <1>6, <1>7, <1>8, <1>9, <1>10, <1>11 DEF IInv

--------------------------------------------------------------------------------
\* The number of tokens a player holds is a number.
LEMMA TotalIsInt ==
    ASSUME NEW counts \in [Tokens -> Int]
    PROVE  total_mine_count(counts) \in Int
<1>1. IsFiniteSet(Tokens)
  BY PlayersInOrder
<1>2. DOMAIN counts = Tokens /\ \A m \in Tokens : counts[m] \in Int
  OBVIOUS
<1>3. SumFunctionOnSet(counts, Tokens) \in Int
  BY ONLY <1>1, <1>2, SumRemove
<1> QED
  BY <1>2, <1>3 DEF total_mine_count, SumFunction

\* The moves that pass tokens between the bank and a player.
LEMMA TakeMinesInv ==
    ASSUME IInv, NEW p \in Players, NEW taken \in [Tokens -> Nat], status[p] = "ACTION",
           \A m \in Tokens : taken[m] <= bank[m], TakeMines(p, taken)
    PROVE  IInv'
<1>0. TypeOK /\ OneTurn /\ HandLimit /\ TokensConserved
  BY DEF IInv
<1> DEFINE counts == [m \in Tokens |-> mine_count[p][m] + taken[m]]
<1>1. mine_count \in [Players -> [Tokens -> Int]] /\ bank \in [Tokens -> Int]
  BY <1>0 DEF TypeOK
<1>2. counts \in [Tokens -> Int]
  BY <1>1
<1>3. mine_count' = [mine_count EXCEPT ![p] = counts]
  BY <1>1 DEF TakeMines
<1>4. bank' = [m \in Tokens |-> bank[m] - taken[m]]
  BY DEF TakeMines
<1>5. bank' \in [Tokens -> Int]
  BY <1>1, <1>4
<1>6. ASSUME NEW m \in Tokens
      PROVE  /\ counts[m] + bank'[m] = mine_count[p][m] + bank[m]
             /\ counts[m] >= 0 /\ bank'[m] >= 0
  <2>1. counts[m] = mine_count[p][m] + taken[m] /\ bank'[m] = bank[m] - taken[m]
    BY <1>4
  <2>2. mine_count[p][m] \in Int /\ bank[m] \in Int /\ taken[m] \in Nat /\ taken[m] <= bank[m]
    BY <1>1
  <2>3. mine_count[p][m] >= 0
    BY <1>0 DEF TokensConserved
  <2> HIDE DEF counts
  <2> QED
    BY ONLY <2>1, <2>2, <2>3
<1>7. TokensConserved' /\ mine_count' \in [Players -> [Tokens -> Int]]
  <2> HIDE DEF counts
  <2> QED
    BY <1>0, <1>2, <1>3, <1>5, <1>6, TokensInv
<1>8. /\ OneTurn' /\ HandLimit'
      /\ status' \in [Players -> {"WAITING", "ACTION", "NEED_RETURN_MINE"}]
  <2>1. \A q \in Players \ {p} : mine_count'[q] = mine_count[q]
    BY <1>1, <1>3
  <2>2. status' = StatusAfterTaking(p, mine_count'[p])
    BY DEF TakeMines
  <2> QED
    BY ONLY IInv, p \in Players, status[p] = "ACTION", <1>0, <2>1, <2>2, TurnInv
<1>9. UNCHANGED <<coupons, coupons_rest, owner, coupon_count, reserved, bought,
                  reputation, is_game_on, aborted>>
  BY DEF TakeMines
<1>10. CardInOnePlace' /\ NoOvertime' /\ AlliesAreAwarded' /\ BoughtAreCards'
  BY <1>9, CardsKept
<1>11. TypeOK'
  BY <1>0, <1>5, <1>7, <1>8, <1>9 DEF TypeOK
<1> QED
  BY <1>7, <1>8, <1>10, <1>11 DEF IInv

\* take_3_mines keeps the invariant: the bank has what is taken.
LEMMA Take3MinesInv ==
    ASSUME IInv, NEW p \in Players, NEW mines \in SUBSET Mines, Take3Mines(p, mines)
    PROVE  IInv'
<1> DEFINE taken == [m \in Tokens |-> IF m \in mines THEN 1 ELSE 0]
<1>1. status[p] = "ACTION" /\ TakeMines(p, taken) /\ \A m \in mines : bank[m] # 0
  BY DEF Take3Mines
<1>2. taken \in [Tokens -> Nat]
  OBVIOUS
<1>3. ASSUME NEW m \in Tokens PROVE taken[m] <= bank[m]
  <2>1. bank[m] \in Int /\ bank[m] >= 0
    BY DEF IInv, TypeOK, TokensConserved
  <2>2. m \in mines => bank[m] # 0
    BY <1>1
  <2>3. taken[m] = IF m \in mines THEN 1 ELSE 0
    OBVIOUS
  <2> QED
    BY ONLY <2>1, <2>2, <2>3
<1> HIDE DEF taken
<1> QED
  BY <1>1, <1>2, <1>3, TakeMinesInv

\* take_2_mines keeps the invariant.
LEMMA Take2MinesInv ==
    ASSUME IInv, NEW p \in Players, NEW mine \in Mines, Take2Mines(p, mine)
    PROVE  IInv'
<1> DEFINE taken == [m \in Tokens |-> IF m = mine THEN 2 ELSE 0]
<1>1. status[p] = "ACTION" /\ TakeMines(p, taken) /\ bank[mine] >= 4
  BY DEF Take2Mines
<1>2. taken \in [Tokens -> Nat]
  OBVIOUS
<1>3. ASSUME NEW m \in Tokens PROVE taken[m] <= bank[m]
  <2>1. bank[m] \in Int /\ bank[m] >= 0
    BY DEF IInv, TypeOK, TokensConserved
  <2>2. m = mine => bank[m] >= 4
    BY <1>1
  <2>3. taken[m] = IF m = mine THEN 2 ELSE 0
    OBVIOUS
  <2> QED
    BY ONLY <2>1, <2>2, <2>3
<1> HIDE DEF taken
<1> QED
  BY <1>1, <1>2, <1>3, TakeMinesInv

\* return_mine keeps the invariant: below the limit the turn passes.
LEMMA ReturnMineInv ==
    ASSUME IInv, NEW p \in Players, NEW mine \in Tokens, ReturnMine(p, mine)
    PROVE  IInv'
<1>0. TypeOK /\ OneTurn /\ HandLimit /\ TokensConserved /\ status[p] = "NEED_RETURN_MINE"
  BY DEF IInv, ReturnMine
<1>1. mine_count \in [Players -> [Tokens -> Int]] /\ bank \in [Tokens -> Int]
  BY <1>0 DEF TypeOK
<1> DEFINE counts == [mine_count[p] EXCEPT ![mine] = @ - 1]
<1>2. counts \in [Tokens -> Int]
  BY <1>1
<1>3. mine_count' = [mine_count EXCEPT ![p] = counts]
  BY <1>1 DEF ReturnMine
<1>4. bank' = [bank EXCEPT ![mine] = @ + 1] /\ mine_count[p][mine] >= 1
  BY DEF ReturnMine
<1>5. bank' \in [Tokens -> Int]
  BY <1>1, <1>4
<1>6. ASSUME NEW m \in Tokens
      PROVE  /\ counts[m] + bank'[m] = mine_count[p][m] + bank[m]
             /\ counts[m] >= 0 /\ bank'[m] >= 0
  <2>1. /\ counts[m] = IF m = mine THEN mine_count[p][m] - 1 ELSE mine_count[p][m]
        /\ bank'[m] = IF m = mine THEN bank[m] + 1 ELSE bank[m]
    BY <1>1, <1>4
  <2>2. mine_count[p][m] \in Int /\ bank[m] \in Int
    BY <1>1
  <2>3. mine_count[p][m] >= 0 /\ bank[m] >= 0 /\ (m = mine => mine_count[p][m] >= 1)
    BY <1>0, <1>4 DEF TokensConserved
  <2> HIDE DEF counts
  <2> QED
    BY ONLY <2>1, <2>2, <2>3
<1>7. TokensConserved' /\ mine_count' \in [Players -> [Tokens -> Int]]
  <2> HIDE DEF counts
  <2> QED
    BY <1>0, <1>2, <1>3, <1>5, <1>6, TokensInv
<1>8. /\ OneTurn' /\ HandLimit'
      /\ status' \in [Players -> {"WAITING", "ACTION", "NEED_RETURN_MINE"}]
  <2>1. \A q \in Players \ {p} : mine_count'[q] = mine_count[q]
    BY <1>1, <1>3
  <2>2. status' = IF total_mine_count(mine_count'[p]) < TokenLimit + 1
                  THEN PassTurn(p) ELSE status
    BY DEF ReturnMine
  <2>3. status = [status EXCEPT ![p] = "NEED_RETURN_MINE"]
    BY <1>0 DEF TypeOK
  <2>4. total_mine_count(mine_count'[p]) \in Int
    BY <1>2, <1>3, <1>1, TotalIsInt
  <2>5. TokenLimit \in Nat
    OBVIOUS
  <2>6. status' = StatusAfterTaking(p, mine_count'[p])
    BY ONLY <2>2, <2>3, <2>4, <2>5 DEF StatusAfterTaking
  <2> QED
    BY <1>0, <2>1, <2>6, TurnInv
<1>9. UNCHANGED <<coupons, coupons_rest, owner, coupon_count, reserved, bought,
                  reputation, is_game_on, aborted>>
  BY DEF ReturnMine
<1>10. CardInOnePlace' /\ NoOvertime' /\ AlliesAreAwarded' /\ BoughtAreCards'
  BY <1>9, CardsKept
<1>11. TypeOK'
  BY <1>0, <1>5, <1>7, <1>8, <1>9 DEF TypeOK
<1> QED
  BY <1>7, <1>8, <1>10, <1>11 DEF IInv

--------------------------------------------------------------------------------
\* The parts of Places: the slots a card lies in, the deck, the places it has
\* among reserved cards, and who has bought it.
InSlots(c)  == {s \in Slots : coupons[s] = c}
InDeck(c)   == IF c \in coupons_rest THEN {<<"deck">>} ELSE {}
InHands(c)  == {x \in {"reserved"} \X Players \X (1..ReserveLimit) :
                   x[3] \in DOMAIN reserved[x[2]] /\ reserved[x[2]][x[3]] = c}
BoughtBy(c) == {p \in Players : c \in bought[p]}

PlacesOf(A, D, H, B) == ({"slot"} \X A) \cup D \cup H \cup ({"bought"} \X B)

Only(P, x)  == P = {x}
None(P)     == P = {}
OnePlace(c) == \E x : Only(Places(c), x)

\* The places of a card are those of its parts.
LEMMA PlacesByPart ==
    ASSUME NEW c
    PROVE  /\ Places(c) = PlacesOf(InSlots(c), InDeck(c), InHands(c), BoughtBy(c))
           /\ Places(c)' = PlacesOf(InSlots(c)', InDeck(c)', InHands(c)', BoughtBy(c)')
BY DEF Places, PlacesOf, InSlots, InDeck, InHands, BoughtBy

\* CardInOnePlace, card by card.
LEMMA OnePlaceOfEach ==
    /\ CardInOnePlace => \A c \in Coupons : OnePlace(c)
    /\ (\A c \in Coupons : OnePlace(c)') => CardInOnePlace'
<1>1. \A c : OnePlace(c) => \E x \in Places(c) : Places(c) = {x}
  BY DEF OnePlace, Only
<1>2. \A c : OnePlace(c)' => \E x \in Places(c)' : Places(c)' = {x}
  BY DEF OnePlace, Only
<1>3. \A c : (\E x \in Places(c) : Places(c) = {x}) => OnePlace(c)
  BY DEF OnePlace, Only
<1> QED
  BY <1>1, <1>2, <1>3 DEF CardInOnePlace

\* A card in one of its places is in no other.
LEMMA InNoOther ==
    ASSUME NEW A, NEW D \in SUBSET {<<"deck">>}, NEW B, NEW x,
           NEW H \in SUBSET ({"reserved"} \X Players \X (1..ReserveLimit)),
           Only(PlacesOf(A, D, H, B), x)
    PROVE  /\ \A a \in A : Only(A, a) /\ None(D) /\ None(H) /\ None(B)
           /\ None(D) \/ (None(A) /\ None(H) /\ None(B))
           /\ \A h \in H : None(A) /\ None(D) /\ Only(H, h) /\ None(B)
<1>0. PlacesOf(A, D, H, B) = {x}
  BY DEF Only
<1>1. \A a \in A : <<"slot", a>> = x
  BY <1>0 DEF PlacesOf
<1>2. D # {} => <<"deck">> = x
  BY <1>0 DEF PlacesOf
<1>3. \A h \in H : h = x
  BY <1>0 DEF PlacesOf
<1>4. \A b \in B : <<"bought", b>> = x
  BY <1>0 DEF PlacesOf
<1>5. \A h \in H : h = <<"reserved", h[2], h[3]>>
  OBVIOUS
<1>6. ASSUME NEW a \in A PROVE A = {a} /\ D = {} /\ H = {} /\ B = {}
  <2>1. \A b \in A : b = a
    BY <1>1
  <2>2. D = {}
    BY <1>1, <1>2
  <2>3. H = {}
    BY <1>1, <1>3, <1>5
  <2>4. B = {}
    BY <1>1, <1>4
  <2> QED
    BY <2>1, <2>2, <2>3, <2>4
<1>7. ASSUME D # {} PROVE A = {} /\ H = {} /\ B = {}
  <2>0. A = {}
    BY <1>6, <1>7
  <2>1. H = {}
    BY <1>2, <1>3, <1>5, <1>7
  <2>2. B = {}
    BY <1>2, <1>4, <1>7
  <2> QED
    BY <2>0, <2>1, <2>2
<1>8. ASSUME NEW h \in H PROVE A = {} /\ D = {} /\ H = {h} /\ B = {}
  <2>0. A = {} /\ D = {}
    BY <1>6, <1>7
  <2>1. \A g \in H : g = h
    BY <1>3
  <2>2. B = {}
    BY <1>3, <1>4, <1>5
  <2> QED
    BY <2>0, <2>1, <2>2
<1>10. \A a \in A : Only(A, a) /\ None(D) /\ None(H) /\ None(B)
  BY <1>6 DEF Only, None
<1>11. None(D) \/ (None(A) /\ None(H) /\ None(B))
  BY <1>7 DEF None
<1>12. \A h \in H : None(A) /\ None(D) /\ Only(H, h) /\ None(B)
  BY <1>8 DEF Only, None
<1> QED
  BY <1>10, <1>11, <1>12

\* What being in one place means for the parts.
LEMMA ElsewhereNot ==
    ASSUME NEW c, OnePlace(c)
    PROVE  /\ \A s \in InSlots(c) : /\ Only(InSlots(c), s) /\ None(InDeck(c))
                                    /\ None(InHands(c)) /\ None(BoughtBy(c))
           /\ None(InDeck(c)) \/ (None(InSlots(c)) /\ None(InHands(c)) /\ None(BoughtBy(c)))
           /\ \A h \in InHands(c) : /\ None(InSlots(c)) /\ None(InDeck(c))
                                    /\ Only(InHands(c), h) /\ None(BoughtBy(c))
<1>1. PICK x : Only(Places(c), x)
  BY DEF OnePlace
<1>2. Only(PlacesOf(InSlots(c), InDeck(c), InHands(c), BoughtBy(c)), x)
  BY <1>1, PlacesByPart
<1>3. /\ InHands(c) \in SUBSET ({"reserved"} \X Players \X (1..ReserveLimit))
      /\ InDeck(c) \in SUBSET {<<"deck">>}
  BY DEF InHands, InDeck
<1> QED
  BY ONLY <1>2, <1>3, InNoOther

\* A card whose parts are those of one place is in one place.
LEMMA InOne ==
    ASSUME NEW A, NEW D, NEW H, NEW B
    PROVE  /\ \A s : Only(A, s) /\ None(D) /\ None(H) /\ None(B)
                        => Only(PlacesOf(A, D, H, B), <<"slot", s>>)
           /\ \A h : None(A) /\ None(D) /\ Only(H, h) /\ None(B)
                        => Only(PlacesOf(A, D, H, B), h)
           /\ \A p : None(A) /\ None(D) /\ None(H) /\ Only(B, p)
                        => Only(PlacesOf(A, D, H, B), <<"bought", p>>)
BY DEF PlacesOf, Only, None

\* A card stays in one place if its places are the old ones, or the parts say so.
LEMMA OnePlaceNext ==
    ASSUME NEW c, OnePlace(c)
    PROVE  /\ /\ InSlots(c)' = InSlots(c) /\ InDeck(c)' = InDeck(c)
              /\ InHands(c)' = InHands(c) /\ BoughtBy(c)' = BoughtBy(c)
              => OnePlace(c)'
           /\ \A s : /\ Only(InSlots(c)', s) /\ None(InDeck(c)') /\ None(InHands(c)')
                     /\ None(BoughtBy(c)')
                     => OnePlace(c)'
           /\ \A h : /\ None(InSlots(c)') /\ None(InDeck(c)') /\ Only(InHands(c)', h)
                     /\ None(BoughtBy(c)')
                     => OnePlace(c)'
           /\ \A p : /\ None(InSlots(c)') /\ None(InDeck(c)') /\ None(InHands(c)')
                     /\ Only(BoughtBy(c)', p)
                     => OnePlace(c)'
<1>1. OnePlace(c)' <=> \E x : Only(Places(c)', x)
  BY DEF OnePlace, Only
<1>2. \E x : Only(Places(c), x)
  BY DEF OnePlace
<1>3. /\ Places(c) = PlacesOf(InSlots(c), InDeck(c), InHands(c), BoughtBy(c))
      /\ Places(c)' = PlacesOf(InSlots(c)', InDeck(c)', InHands(c)', BoughtBy(c)')
  BY PlacesByPart
<1>4. ASSUME InSlots(c)' = InSlots(c), InDeck(c)' = InDeck(c),
             InHands(c)' = InHands(c), BoughtBy(c)' = BoughtBy(c)
      PROVE  OnePlace(c)'
  <2>1. Places(c)' = Places(c)
    BY ONLY <1>3, <1>4
  <2> QED
    BY ONLY <1>1, <1>2, <2>1
<1>5. ASSUME NEW s, Only(InSlots(c)', s), None(InDeck(c)'), None(InHands(c)'),
             None(BoughtBy(c)')
      PROVE  OnePlace(c)'
  <2>1. Only(PlacesOf(InSlots(c)', InDeck(c)', InHands(c)', BoughtBy(c)'), <<"slot", s>>)
    BY ONLY <1>5, InOne
  <2>2. Only(Places(c)', <<"slot", s>>)
    BY ONLY <1>3, <2>1
  <2> QED
    BY ONLY <1>1, <2>2
<1>6. ASSUME NEW h, None(InSlots(c)'), None(InDeck(c)'), Only(InHands(c)', h),
             None(BoughtBy(c)')
      PROVE  OnePlace(c)'
  <2>1. Only(PlacesOf(InSlots(c)', InDeck(c)', InHands(c)', BoughtBy(c)'), h)
    BY ONLY <1>6, InOne
  <2>2. Only(Places(c)', h)
    BY ONLY <1>3, <2>1
  <2> QED
    BY ONLY <1>1, <2>2
<1>7. ASSUME NEW p, None(InSlots(c)'), None(InDeck(c)'), None(InHands(c)'),
             Only(BoughtBy(c)', p)
      PROVE  OnePlace(c)'
  <2>1. Only(PlacesOf(InSlots(c)', InDeck(c)', InHands(c)', BoughtBy(c)'), <<"bought", p>>)
    BY ONLY <1>7, InOne
  <2>2. Only(Places(c)', <<"bought", p>>)
    BY ONLY <1>3, <2>1
  <2> QED
    BY ONLY <1>1, <2>2
<1> QED
  BY <1>4, <1>5, <1>6, <1>7

--------------------------------------------------------------------------------
\* A card that leaves its slot is then in no slot and not in the deck, and the
\* card that comes for it, if any, is in that slot only.
LEMMA FillInv ==
    ASSUME IInv, NEW s \in Slots, NEW k \in Coupons, coupons[s] = k, FillCoupon(s)
    PROVE  /\ coupons' \in [Slots -> Coupons \cup {EMPTY}] /\ coupons_rest' \in SUBSET Coupons
           /\ None(InSlots(k)') /\ None(InDeck(k)') /\ None(InHands(k)) /\ None(BoughtBy(k))
           /\ \A c \in Coupons \ {k} :
                 InHands(c)' = InHands(c) /\ BoughtBy(c)' = BoughtBy(c) => OnePlace(c)'
<1>1. coupons \in [Slots -> Coupons \cup {EMPTY}] /\ coupons_rest \in SUBSET Coupons
  BY DEF IInv, TypeOK
<1>2. \A c \in Coupons : OnePlace(c)
  BY OnePlaceOfEach DEF IInv
<1>3. Only(InSlots(k), s) /\ None(InDeck(k)) /\ None(InHands(k)) /\ None(BoughtBy(k))
  <2>1. s \in InSlots(k)
    BY DEF InSlots
  <2> QED
    BY ONLY <1>2, <2>1, k \in Coupons, ElsewhereNot
<1>4. (\A t \in Slots : coupons[t] = k => t = s) /\ k \notin coupons_rest
  BY <1>3 DEF Only, None, InSlots, InDeck
<1>5. EMPTY \notin Coupons
  OBVIOUS
<1>6. CASE coupons' = [coupons EXCEPT ![s] = EMPTY] /\ UNCHANGED coupons_rest
  <2>1. \A t \in Slots : coupons'[t] = IF t = s THEN EMPTY ELSE coupons[t]
    BY <1>1, <1>6
  <2>2. coupons' \in [Slots -> Coupons \cup {EMPTY}] /\ coupons_rest' \in SUBSET Coupons
    BY <1>1, <1>6
  <2>3. None(InSlots(k)') /\ None(InDeck(k)')
    BY <1>4, <1>5, <1>6, <2>1 DEF None, InSlots, InDeck
  <2>4. ASSUME NEW c \in Coupons \ {k}, InHands(c)' = InHands(c), BoughtBy(c)' = BoughtBy(c)
        PROVE  OnePlace(c)'
    <3>1. InSlots(c)' = InSlots(c)
      BY <1>5, <2>1 DEF InSlots
    <3>2. InDeck(c)' = InDeck(c)
      BY <1>6 DEF InDeck
    <3> QED
      BY ONLY <1>2, <2>4, <3>1, <3>2, OnePlaceNext
  <2> QED
    BY <1>3, <2>2, <2>3, <2>4
<1>7. ASSUME NEW n \in coupons_rest, coupons' = [coupons EXCEPT ![s] = n],
             coupons_rest' = coupons_rest \ {n}
      PROVE  /\ coupons' \in [Slots -> Coupons \cup {EMPTY}] /\ coupons_rest' \in SUBSET Coupons
             /\ None(InSlots(k)') /\ None(InDeck(k)')
             /\ \A c \in Coupons \ {k} :
                   InHands(c)' = InHands(c) /\ BoughtBy(c)' = BoughtBy(c) => OnePlace(c)'
  <2>0. n \in Coupons /\ n # k
    BY <1>1, <1>4
  <2>1. \A t \in Slots : coupons'[t] = IF t = s THEN n ELSE coupons[t]
    BY <1>1, <1>7
  <2>2. coupons' \in [Slots -> Coupons \cup {EMPTY}] /\ coupons_rest' \in SUBSET Coupons
    BY <1>1, <1>7, <2>0
  <2>3. None(InSlots(k)') /\ None(InDeck(k)')
    BY <1>4, <1>7, <2>0, <2>1 DEF None, InSlots, InDeck
  <2>4. ASSUME NEW c \in Coupons \ {k}, InHands(c)' = InHands(c), BoughtBy(c)' = BoughtBy(c)
        PROVE  OnePlace(c)'
    <3>1. CASE c = n
      <4>1. InDeck(c) # {}
        BY <3>1 DEF InDeck
      <4>2. None(InSlots(c)) /\ None(InHands(c)) /\ None(BoughtBy(c))
        <5>1. ~None(InDeck(c))
          BY <4>1 DEF None
        <5> QED
          BY ONLY <1>2, <2>4, <5>1, ElsewhereNot
      <4>3. Only(InSlots(c)', s) /\ None(InDeck(c)')
        BY <1>7, <2>1, <3>1, <4>2 DEF None, Only, InSlots, InDeck
      <4>4. None(InHands(c)') /\ None(BoughtBy(c)')
        BY ONLY <2>4, <4>2
      <4> QED
        BY ONLY <1>2, <2>4, <4>3, <4>4, OnePlaceNext
    <3>2. CASE c # n
      <4>1. InSlots(c)' = InSlots(c)
        BY <2>1, <3>2 DEF InSlots
      <4>2. InDeck(c)' = InDeck(c)
        BY <1>7, <3>2 DEF InDeck
      <4> QED
        BY ONLY <1>2, <2>4, <4>1, <4>2, OnePlaceNext
    <3> QED
      BY <3>1, <3>2
  <2> QED
    BY <2>2, <2>3, <2>4
<1> QED
  BY <1>3, <1>6, <1>7 DEF FillCoupon

\* reserve_coupon keeps the invariant: the card moves from its slot to the player.
LEMMA ReserveCouponInv ==
    ASSUME IInv, NEW p \in Players, NEW s \in Slots, coupons[s] # EMPTY, ReserveCoupon(p, s)
    PROVE  IInv'
<1>0. TypeOK /\ OneTurn /\ HandLimit /\ TokensConserved /\ status[p] = "ACTION"
  BY DEF IInv, ReserveCoupon
<1> DEFINE gold == IF bank[GOLD] > 0 THEN 1 ELSE 0
<1> DEFINE n == Len(reserved[p])
<1>1. /\ mine_count \in [Players -> [Tokens -> Int]] /\ bank \in [Tokens -> Int]
      /\ reserved \in [Players -> Seq(Coupons \cup {EMPTY})] /\ GOLD \in Tokens
      /\ \A q \in Players : Len(reserved[q]) <= ReserveLimit
  BY <1>0 DEF TypeOK, Tokens
<1>2. PICK k \in Coupons : coupons[s] = k
  BY <1>0 DEF TypeOK
<1>3. /\ mine_count' = [mine_count EXCEPT ![p][GOLD] = @ + gold]
      /\ bank' = [bank EXCEPT ![GOLD] = @ - gold]
      /\ reserved' = [reserved EXCEPT ![p] = Append(@, k)] /\ n < ReserveLimit
      /\ status' = StatusAfterTaking(p, mine_count'[p]) /\ FillCoupon(s)
      /\ UNCHANGED <<owner, coupon_count, bought, reputation, is_game_on, aborted>>
  BY <1>2 DEF ReserveCoupon
<1> DEFINE counts == [mine_count[p] EXCEPT ![GOLD] = @ + gold]
<1>4. gold \in Int /\ gold >= 0 /\ gold <= bank[GOLD]
  <2>1. bank[GOLD] \in Int /\ bank[GOLD] >= 0
    BY <1>0, <1>1 DEF TokensConserved
  <2> QED
    BY <2>1
<1> HIDE DEF gold, n
<1>5. /\ mine_count' = [mine_count EXCEPT ![p] = counts]
      /\ counts \in [Tokens -> Int] /\ bank' \in [Tokens -> Int]
  <2>1. mine_count' = [mine_count EXCEPT ![p] = counts]
    BY <1>1, <1>3
  <2>2. counts \in [Tokens -> Int]
    BY <1>1, <1>4
  <2>3. bank' \in [Tokens -> Int]
    BY <1>1, <1>3, <1>4
  <2> QED
    BY ONLY <2>1, <2>2, <2>3
<1>6. ASSUME NEW m \in Tokens
      PROVE  /\ counts[m] + bank'[m] = mine_count[p][m] + bank[m]
             /\ counts[m] >= 0 /\ bank'[m] >= 0
  <2>1. /\ counts[m] = IF m = GOLD THEN mine_count[p][m] + gold ELSE mine_count[p][m]
        /\ bank'[m] = IF m = GOLD THEN bank[m] - gold ELSE bank[m]
    BY <1>1, <1>3
  <2>2. mine_count[p][m] \in Int /\ bank[m] \in Int
    BY <1>1
  <2>3. mine_count[p][m] >= 0 /\ bank[m] >= 0 /\ (m = GOLD => gold <= bank[m])
    BY <1>0, <1>4 DEF TokensConserved
  <2> HIDE DEF counts
  <2> QED
    BY ONLY <1>4, <2>1, <2>2, <2>3
<1>7. TokensConserved' /\ mine_count' \in [Players -> [Tokens -> Int]]
  <2> HIDE DEF counts
  <2> QED
    BY <1>0, <1>5, <1>6, TokensInv
<1>8. /\ OneTurn' /\ HandLimit'
      /\ status' \in [Players -> {"WAITING", "ACTION", "NEED_RETURN_MINE"}]
  <2>1. \A q \in Players \ {p} : mine_count'[q] = mine_count[q]
    BY <1>1, <1>5
  <2> QED
    BY <1>0, <1>3, <2>1, TurnInv
<1>9. /\ reserved' \in [Players -> Seq(Coupons \cup {EMPTY})]
      /\ \A q \in Players : Len(reserved'[q]) <= ReserveLimit
  <2>1. Append(reserved[p], k) \in Seq(Coupons \cup {EMPTY}) /\ Len(Append(reserved[p], k)) = n + 1
    BY <1>1, <1>2 DEF n
  <2>2. n \in Nat /\ ReserveLimit \in Nat
    BY <1>1 DEF n
  <2>3. \A q \in Players : reserved'[q] = IF q = p THEN Append(reserved[p], k) ELSE reserved[q]
    BY <1>1, <1>3
  <2>4. Len(reserved'[p]) <= ReserveLimit
    BY <1>3, <2>1, <2>2, <2>3
  <2> QED
    BY <1>1, <1>3, <2>1, <2>3, <2>4
<1>10. /\ coupons' \in [Slots -> Coupons \cup {EMPTY}] /\ coupons_rest' \in SUBSET Coupons
       /\ None(InSlots(k)') /\ None(InDeck(k)') /\ None(InHands(k)) /\ None(BoughtBy(k))
       /\ \A c \in Coupons \ {k} :
             InHands(c)' = InHands(c) /\ BoughtBy(c)' = BoughtBy(c) => OnePlace(c)'
  BY <1>2, <1>3, FillInv
<1>11. TypeOK'
  BY <1>0, <1>3, <1>5, <1>7, <1>8, <1>9, <1>10 DEF TypeOK
<1>12. CardInOnePlace'
  <2>0. n \in Nat /\ ReserveLimit \in Nat /\ \A q \in Players : DOMAIN reserved[q] = 1..Len(reserved[q])
    BY <1>1 DEF n
  <2>1. \A q \in Players, i \in 1..ReserveLimit :
           /\ i \in DOMAIN reserved'[q] <=> i \in DOMAIN reserved[q] \/ (q = p /\ i = n + 1)
           /\ i \in DOMAIN reserved'[q] =>
                reserved'[q][i] = IF q = p /\ i = n + 1 THEN k ELSE reserved[q][i]
    <3> TAKE q \in Players, i \in 1..ReserveLimit
    <3>1. CASE q = p
      <4>1. /\ DOMAIN reserved[p] = 1..n /\ DOMAIN reserved'[p] = 1..(n + 1)
            /\ reserved'[p][n + 1] = k
            /\ \A j \in 1..n : reserved'[p][j] = reserved[p][j]
        BY <1>1, <1>2, <1>3, <2>0 DEF n
      <4> QED
        BY ONLY <2>0, <3>1, <4>1, i \in 1..ReserveLimit
    <3>2. CASE q # p
      BY <1>1, <1>3, <3>2
    <3> QED
      BY <3>1, <3>2
  <2>2. \A c : BoughtBy(c)' = BoughtBy(c)
    BY <1>3 DEF BoughtBy
  <2>3. ASSUME NEW c \in Coupons \ {k} PROVE InHands(c)' = InHands(c)
    <3>1. \A q \in Players, i \in 1..ReserveLimit :
             (i \in DOMAIN reserved'[q] /\ reserved'[q][i] = c)
                <=> (i \in DOMAIN reserved[q] /\ reserved[q][i] = c)
      <4> TAKE q \in Players, i \in 1..ReserveLimit
      <4>1. n + 1 \notin DOMAIN reserved[p]
        <5>1. DOMAIN reserved[p] = 1..n
          BY <2>0 DEF n
        <5> QED
          BY ONLY <2>0, <5>1
      <4>2. c # k
        OBVIOUS
      <4>3. CASE q = p /\ i = n + 1
        BY ONLY <2>1, <4>1, <4>2, <4>3, q \in Players, i \in 1..ReserveLimit
      <4>4. CASE ~(q = p /\ i = n + 1)
        BY ONLY <2>1, <4>4, q \in Players, i \in 1..ReserveLimit
      <4> QED
        BY <4>3, <4>4
    <3> QED
      BY ONLY <3>1 DEF InHands
  <2>4. Only(InHands(k)', <<"reserved", p, n + 1>>)
    <3>1. \A q \in Players, i \in 1..ReserveLimit :
             ~(i \in DOMAIN reserved[q] /\ reserved[q][i] = k)
      <4> SUFFICES ASSUME NEW q \in Players, NEW i \in 1..ReserveLimit,
                          i \in DOMAIN reserved[q], reserved[q][i] = k
                   PROVE  FALSE
        OBVIOUS
      <4>1. <<"reserved", q, i>> \in InHands(k)
        BY DEF InHands
      <4> QED
        BY <1>10, <4>1 DEF None
    <3>2. n + 1 \in 1..ReserveLimit
      BY <1>3, <2>0
    <3>3. \A q \in Players, i \in 1..ReserveLimit :
             (i \in DOMAIN reserved'[q] /\ reserved'[q][i] = k) <=> (q = p /\ i = n + 1)
      BY <2>1, <3>1
    <3> HIDE DEF n
    <3>4. \A x \in {"reserved"} \X Players \X (1..ReserveLimit) :
             (x[3] \in DOMAIN reserved'[x[2]] /\ reserved'[x[2]][x[3]] = k)
                <=> x = <<"reserved", p, n + 1>>
      BY <3>3
    <3> QED
      BY <3>2, <3>4 DEF InHands, Only
  <2>5. \A c \in Coupons : OnePlace(c)
    BY OnePlaceOfEach DEF IInv
  <2>6. OnePlace(k)'
    <3>1. None(InSlots(k)') /\ None(InDeck(k)') /\ None(BoughtBy(k)')
      BY <1>10, <2>2
    <3> QED
      BY ONLY <1>2, <2>4, <2>5, <3>1, OnePlaceNext
  <2>7. \A c \in Coupons : OnePlace(c)'
    BY <1>10, <2>2, <2>3, <2>6
  <2> QED
    BY <2>7, OnePlaceOfEach
<1>13. NoOvertime' /\ AlliesAreAwarded' /\ BoughtAreCards'
  <2>1. NoOvertime'
    BY <1>3 DEF IInv, NoOvertime, Earned
  <2>2. AlliesAreAwarded' /\ BoughtAreCards'
    BY <1>3 DEF IInv, AlliesAreAwarded, BoughtAreCards
  <2> QED
    BY <2>1, <2>2
<1> QED
  BY <1>7, <1>8, <1>11, <1>12, <1>13 DEF IInv

--------------------------------------------------------------------------------
\* What a player who can afford a card pays: no more of any token than there is.
\* check_affordabillity and the payment take discounts and tokens away in a
\* different order, but lack the same.
LEMMA PaidIsThere ==
    ASSUME TypeOK, TokensConserved, NEW p \in Players, NEW c \in Coupons, CheckAffordability(p, c)
    PROVE  \A m \in Tokens : Paid(p, c)[m] \in Nat /\ Paid(p, c)[m] <= mine_count[p][m]
<1> DEFINE lacks == [m \in Mines |-> Positive(c.costs[m] - mine_count[p][m] - coupon_count[p][m])]
<1> DEFINE left  == [m \in Mines |-> Positive(Owed(p, c, m) - mine_count[p][m])]
<1>0. IsFiniteSet(Mines) /\ \A m \in Mines : m # GOLD /\ m \in Tokens
  BY DEF Tokens
<1>1. ASSUME NEW m \in Mines
      PROVE  /\ c.costs[m] \in Nat /\ coupon_count[p][m] \in Nat
             /\ mine_count[p][m] \in Int /\ mine_count[p][m] >= 0
  <2>1. c.costs[m] \in Nat
    BY Cards
  <2>2. coupon_count[p][m] \in Nat /\ mine_count[p][m] \in Int
    BY <1>0 DEF TypeOK
  <2>3. mine_count[p][m] >= 0
    BY <1>0 DEF TokensConserved
  <2> QED
    BY <2>1, <2>2, <2>3
<1>2. ASSUME NEW m \in Mines
      PROVE  /\ lacks[m] = left[m] /\ left[m] \in Nat
             /\ Owed(p, c, m) \in Nat
  <2> DEFINE a == c.costs[m]
  <2> DEFINE b == mine_count[p][m]
  <2> DEFINE d == coupon_count[p][m]
  <2>1. a \in Nat /\ d \in Nat /\ b \in Int /\ b >= 0
    BY <1>1
  <2>2. /\ lacks[m] = (IF a - b - d > 0 THEN a - b - d ELSE 0)
        /\ Owed(p, c, m) = (IF a - d > 0 THEN a - d ELSE 0)
        /\ left[m] = (IF Owed(p, c, m) - b > 0 THEN Owed(p, c, m) - b ELSE 0)
    BY DEF Positive, Owed
  <2> HIDE DEF a, b, d, lacks, left
  <2> QED
    BY ONLY <2>1, <2>2
<1>3. lacks = left
  <2>1. lacks = [m \in Mines |-> lacks[m]] /\ left = [m \in Mines |-> left[m]]
    OBVIOUS
  <2> HIDE DEF lacks, left
  <2> QED
    BY <1>2, <2>1
<1>4. SumFunction(left) <= mine_count[p][GOLD]
  <2>1. SumFunction(lacks) <= mine_count[p][GOLD]
    BY DEF CheckAffordability
  <2> HIDE DEF lacks, left
  <2> QED
    BY <1>3, <2>1
<1>5. SumFunction(left) \in Nat
  <2>1. DOMAIN left = Mines
    OBVIOUS
  <2> HIDE DEF lacks, left
  <2>2. \A m \in Mines : left[m] \in Nat
    BY <1>2
  <2>3. SumFunctionOnSet(left, Mines) \in Nat
    BY ONLY <1>0, <2>2, SumNatural
  <2> QED
    BY <2>1, <2>3 DEF SumFunction
<1> SUFFICES ASSUME NEW m \in Tokens
             PROVE  Paid(p, c)[m] \in Nat /\ Paid(p, c)[m] <= mine_count[p][m]
  OBVIOUS
<1>6. CASE m = GOLD
  <2>1. Paid(p, c)[m] = SumFunction(left)
    BY <1>6 DEF Paid
  <2> HIDE DEF lacks, left
  <2> QED
    BY <1>4, <1>5, <1>6, <2>1
<1>7. CASE m # GOLD
  <2>1. m \in Mines
    BY <1>7 DEF Tokens
  <2>2. Paid(p, c)[m] = IF Owed(p, c, m) < mine_count[p][m] THEN Owed(p, c, m)
                        ELSE mine_count[p][m]
    BY <1>7 DEF Paid
  <2>3. Owed(p, c, m) \in Nat /\ mine_count[p][m] \in Int /\ mine_count[p][m] >= 0
    BY <1>1, <1>2, <2>1
  <2> QED
    BY ONLY <2>2, <2>3
<1> QED
  BY <1>6, <1>7

\* After a purchase the buyer has no more tokens than before: the turn passes.
LEMMA PurchaseTokens ==
    ASSUME IInv, NEW p \in Players, NEW c \in Coupons, Purchase(p, c)
    PROVE  /\ TokensConserved' /\ OneTurn' /\ HandLimit'
           /\ bank' \in [Tokens -> Int] /\ mine_count' \in [Players -> [Tokens -> Int]]
           /\ status' \in [Players -> {"WAITING", "ACTION", "NEED_RETURN_MINE"}]
<1>0. TypeOK /\ OneTurn /\ HandLimit /\ TokensConserved
  BY DEF IInv
<1>1. mine_count \in [Players -> [Tokens -> Int]] /\ bank \in [Tokens -> Int]
  BY <1>0 DEF TypeOK
<1> DEFINE paid == Paid(p, c)
<1> DEFINE counts == [m \in Tokens |-> mine_count[p][m] - paid[m]]
<1>2. /\ status[p] = "ACTION" /\ CheckAffordability(p, c) /\ status' = PassTurn(p)
      /\ mine_count' = [mine_count EXCEPT ![p] = counts]
      /\ bank' = [m \in Tokens |-> bank[m] + paid[m]]
  BY <1>1 DEF Purchase, Pay
<1>3. \A m \in Tokens : paid[m] \in Nat /\ paid[m] <= mine_count[p][m]
  BY <1>0, <1>2, PaidIsThere
<1> HIDE DEF paid
<1>4. counts \in [Tokens -> Int] /\ bank' \in [Tokens -> Int]
  BY <1>1, <1>2, <1>3
<1>5. ASSUME NEW m \in Tokens
      PROVE  /\ counts[m] + bank'[m] = mine_count[p][m] + bank[m]
             /\ counts[m] >= 0 /\ bank'[m] >= 0 /\ counts[m] <= mine_count[p][m]
             /\ counts[m] \in Int /\ mine_count[p][m] \in Int
  <2>1. counts[m] = mine_count[p][m] - paid[m] /\ bank'[m] = bank[m] + paid[m]
    BY <1>2
  <2>2. mine_count[p][m] \in Int /\ bank[m] \in Int
    BY <1>1
  <2>4. bank[m] >= 0
    BY <1>0 DEF TokensConserved
  <2>3. paid[m] \in Nat /\ paid[m] <= mine_count[p][m]
    BY <1>3
  <2> HIDE DEF counts
  <2> QED
    BY ONLY <2>1, <2>2, <2>3, <2>4
<1>6. TokensConserved' /\ mine_count' \in [Players -> [Tokens -> Int]]
  <2> HIDE DEF counts
  <2> QED
    BY <1>0, <1>2, <1>4, <1>5, TokensInv
<1>7. status' = StatusAfterTaking(p, mine_count'[p])
  <2> DEFINE old == mine_count[p]
  <2>1. DOMAIN counts = Tokens /\ DOMAIN old = Tokens
    BY <1>1
  <2>2. mine_count'[p] = counts
    BY <1>1, <1>2
  <2>3. \A m \in Tokens : counts[m] \in Int /\ old[m] \in Int /\ counts[m] <= old[m]
    BY <1>5
  <2>4. ~(total_mine_count(old) > TokenLimit) /\ total_mine_count(old) \in Int
    BY <1>0, <1>1, <1>2, TotalIsInt DEF HandLimit
  <2>a. total_mine_count(counts) \in Int
    BY <1>4, TotalIsInt
  <2>b. IsFiniteSet(Tokens)
    BY PlayersInOrder
  <2> HIDE DEF counts, old
  <2>5. SumFunctionOnSet(counts, Tokens) <= SumFunctionOnSet(old, Tokens)
    BY ONLY <2>3, <2>b, SumMonotone
  <2>6. total_mine_count(counts) <= total_mine_count(old)
    BY <2>1, <2>5 DEF total_mine_count, SumFunction
  <2>7. TokenLimit \in Int
    OBVIOUS
  <2>8. ~(total_mine_count(counts) > TokenLimit)
    BY ONLY <2>4, <2>a, <2>6, <2>7
  <2> QED
    BY <1>2, <2>2, <2>8 DEF StatusAfterTaking
<1>8. /\ OneTurn' /\ HandLimit'
      /\ status' \in [Players -> {"WAITING", "ACTION", "NEED_RETURN_MINE"}]
  <2>1. \A q \in Players \ {p} : mine_count'[q] = mine_count[q]
    BY <1>1, <1>2
  <2> QED
    BY <1>0, <1>2, <1>7, <2>1, TurnInv
<1> QED
  BY <1>4, <1>6, <1>8

\* Who can newly meet the condition of an ally is the buyer only, since all the
\* others would have been awarded it before.
LEMMA PurchaseAwards ==
    ASSUME IInv, NEW p \in Players, NEW c \in Coupons, c \notin bought[p], Purchase(p, c)
    PROVE  /\ NoOvertime' /\ AlliesAreAwarded' /\ BoughtAreCards'
           /\ owner' \in [Allies -> Players \cup {NOBODY}]
           /\ coupon_count' \in [Players -> [Mines -> Nat]]
           /\ bought' \in [Players -> SUBSET (Coupons \cup {EMPTY})]
           /\ reputation' \in [Players -> Int]
           /\ is_game_on' \in BOOLEAN
<1>1. /\ owner \in [Allies -> Players \cup {NOBODY}]
      /\ coupon_count \in [Players -> [Mines -> Nat]]
      /\ bought \in [Players -> SUBSET (Coupons \cup {EMPTY})]
      /\ reputation \in [Players -> Int] /\ is_game_on \in BOOLEAN
      /\ NOBODY \notin Players /\ c.type \in Mines /\ c.reputation \in Nat
  BY Cards DEF IInv, TypeOK
<1> DEFINE free  == {a \in Allies : owner[a] = NOBODY}
<1> DEFINE cc    == [coupon_count EXCEPT ![p][c.type] = @ + 1]
<1> DEFINE rep   == [reputation EXCEPT ![p] = @ + c.reputation]
<1> DEFINE won   == {a \in free : Meets(cc[p], a)}
<1> DEFINE Claimants(a) == {i \in DOMAIN Order : Meets(cc[Order[i]], a)}
<1>2. /\ bought' = [bought EXCEPT ![p] = @ \cup {c}] /\ coupon_count' = cc
      /\ CheckAlly(coupon_count', rep) /\ CheckWinner
  BY DEF Purchase
<1>3. /\ owner' = [a \in Allies |-> IF a \in free /\ Claimants(a) # {}
                                     THEN Order[Max(Claimants(a))] ELSE owner[a]]
      /\ reputation' = [q \in Players |-> rep[q] + Worth({a \in free : Meets(cc[q], a)})]
  BY <1>2 DEF CheckAlly, Award
<1>4. /\ coupon_count' \in [Players -> [Mines -> Nat]]
      /\ \A q \in Players \ {p} : cc[q] = coupon_count[q]
  BY <1>1, <1>2
<1> HIDE DEF cc
<1>5. \A a \in free, q \in Players \ {p} : ~Meets(cc[q], a)
  BY <1>4 DEF IInv, AlliesAreAwarded
<1>6. ASSUME NEW a \in Allies
      PROVE  owner'[a] = IF a \in won THEN p ELSE owner[a]
  <2>1. PICK i \in DOMAIN Order : Order[i] = p
    BY DEF Players
  <2>2. i \in Int /\ \A j \in DOMAIN Order : Order[j] = p => j = i
    BY <2>1
  <2>3. ASSUME a \in free PROVE Claimants(a) = IF a \in won THEN {i} ELSE {}
    BY <1>5, <2>1, <2>2, <2>3, PlayersInOrder
  <2>4. Max({i}) = i
    BY <2>2 DEF Max
  <2> HIDE DEF Claimants
  <2>5. a \in won => a \in free
    OBVIOUS
  <2> HIDE DEF won, free
  <2> QED
    BY <1>3, <2>1, <2>3, <2>4, <2>5
<1>7. owner' \in [Allies -> Players \cup {NOBODY}]
  <2> HIDE DEF won, free, Claimants
  <2>1. owner' = [a \in Allies |-> owner'[a]]
    BY <1>3
  <2> QED
    BY <1>1, <1>6, <2>1
<1>8. AlliesAreAwarded'
  <2> SUFFICES ASSUME NEW a \in Allies, NEW q \in Players, owner'[a] = NOBODY
               PROVE  ~Meets(coupon_count'[q], a)
    BY DEF AlliesAreAwarded, Meets
  <2>1. a \in free /\ a \notin won
    BY <1>1, <1>6
  <2> QED
    BY <1>2, <1>5, <2>1
<1>9. BoughtAreCards' /\ bought' \in [Players -> SUBSET (Coupons \cup {EMPTY})]
  BY <1>1, <1>2 DEF IInv, BoughtAreCards
<1>10. ASSUME NEW q \in Players
       PROVE  reputation'[q] = Earned(q)' /\ reputation'[q] \in Int
  <2> DEFINE mine == {a \in Allies : owner[a] = q}
  <2>1. /\ bought[q] \in SUBSET Coupons /\ mine \in SUBSET Allies
        /\ reputation[q] = Worth(bought[q]) + Worth(mine)
    BY DEF IInv, BoughtAreCards, NoOvertime, Earned
  <2>2. Worth(bought[q]) \in Nat /\ Worth(mine) \in Nat /\ Worth({}) = 0
    BY ONLY <2>1, WorthAdds, Coupons \in {Coupons, Allies}, Allies \in {Coupons, Allies}
  <2>3. Earned(q)' = Worth(bought'[q]) + Worth({a \in Allies : owner'[a] = q})
    BY DEF Earned, Worth
  <2>4. reputation'[q] = rep[q] + Worth({a \in free : Meets(cc[q], a)})
    BY <1>3
  <2>5. CASE q # p
    <3>1. {a \in free : Meets(cc[q], a)} = {}
      BY <1>5, <2>5
    <3>2. rep[q] = reputation[q] /\ bought'[q] = bought[q]
      BY <1>1, <1>2, <2>5
    <3>3. {a \in Allies : owner'[a] = q} = mine
      <4> HIDE DEF won
      <4>1. \A a \in won : owner[a] = NOBODY
        BY DEF won
      <4> QED
        BY <1>1, <1>6, <2>5, <4>1
    <3>4. reputation'[q] = reputation[q] + 0 /\ Earned(q)' = reputation[q]
      BY <2>1, <2>2, <2>3, <2>4, <3>1, <3>2, <3>3
    <3>5. reputation[q] \in Int
      BY <1>1
    <3> QED
      BY <3>4, <3>5
  <2>6. CASE q = p
    <3>1. {a \in free : Meets(cc[q], a)} = won
      BY <2>6
    <3>2. rep[q] = reputation[q] + c.reputation /\ bought'[q] = bought[q] \cup {c}
      BY <1>1, <1>2, <2>6
    <3>3. {a \in Allies : owner'[a] = q} = mine \cup won
      <4> HIDE DEF won
      <4>1. won \subseteq Allies
        BY DEF won
      <4> QED
        BY <1>6, <2>6, <4>1
    <3>4. won \in SUBSET Allies /\ mine \cap won = {} /\ {c} \in SUBSET Coupons
          /\ bought[q] \cap {c} = {}
      BY <1>1, <2>6
    <3> HIDE DEF won, mine, rep, free
    <3>5. Worth(won) \in Nat /\ Worth(mine \cup won) = Worth(mine) + Worth(won)
      BY ONLY <2>1, <3>4, WorthAdds, Allies \in {Coupons, Allies}
    <3>6. Worth({c}) = c.reputation /\ Worth(bought[q] \cup {c}) = Worth(bought[q]) + Worth({c})
      BY ONLY c \in Coupons, <2>1, <3>4, WorthAdds, Coupons \in {Coupons, Allies}
    <3>7. reputation'[q] = reputation[q] + c.reputation + Worth(won)
      BY <2>4, <3>1, <3>2
    <3>8. Earned(q)' = (Worth(bought[q]) + c.reputation) + (Worth(mine) + Worth(won))
      BY <2>3, <3>2, <3>3, <3>5, <3>6
    <3> QED
      BY ONLY <1>1, <2>1, <2>2, <3>5, <3>7, <3>8
  <2> QED
    BY <2>5, <2>6
<1>11. reputation' \in [Players -> Int]
  <2>1. reputation' = [q \in Players |-> reputation'[q]]
    BY <1>3
  <2> QED
    BY <1>10, <2>1
<1>12. NoOvertime' /\ is_game_on' \in BOOLEAN
  <2>1. is_game_on' = (is_game_on /\ \A q \in Players : reputation'[q] < WinningReputation)
    BY <1>2 DEF CheckWinner
  <2> QED
    BY <1>1, <1>10, <2>1 DEF NoOvertime
<1> QED
  BY <1>4, <1>7, <1>8, <1>9, <1>11, <1>12

\* buy_coupon keeps the invariant: the card moves from its slot to the buyer.
LEMMA BuyCouponInv ==
    ASSUME IInv, NEW p \in Players, NEW s \in Slots, BuyCoupon(p, s)
    PROVE  IInv'
<1>0. TypeOK /\ \A c \in Coupons : OnePlace(c)
  BY OnePlaceOfEach DEF IInv
<1>1. PICK k \in Coupons : coupons[s] = k
  BY <1>0 DEF BuyCoupon, TypeOK
<1>2. /\ Purchase(p, k) /\ FillCoupon(s) /\ UNCHANGED <<reserved, aborted>>
      /\ bought' = [bought EXCEPT ![p] = @ \cup {k}]
  BY <1>1 DEF BuyCoupon, Purchase
<1>3. /\ coupons' \in [Slots -> Coupons \cup {EMPTY}] /\ coupons_rest' \in SUBSET Coupons
      /\ None(InSlots(k)') /\ None(InDeck(k)') /\ None(InHands(k)) /\ None(BoughtBy(k))
      /\ \A c \in Coupons \ {k} :
            InHands(c)' = InHands(c) /\ BoughtBy(c)' = BoughtBy(c) => OnePlace(c)'
  BY <1>1, <1>2, FillInv
<1>4. \A q \in Players : k \notin bought[q]
  BY <1>3 DEF None, BoughtBy
<1>5. /\ TokensConserved' /\ OneTurn' /\ HandLimit'
      /\ bank' \in [Tokens -> Int] /\ mine_count' \in [Players -> [Tokens -> Int]]
      /\ status' \in [Players -> {"WAITING", "ACTION", "NEED_RETURN_MINE"}]
  BY <1>2, PurchaseTokens
<1>6. /\ NoOvertime' /\ AlliesAreAwarded' /\ BoughtAreCards'
      /\ owner' \in [Allies -> Players \cup {NOBODY}]
      /\ coupon_count' \in [Players -> [Mines -> Nat]]
      /\ bought' \in [Players -> SUBSET (Coupons \cup {EMPTY})]
      /\ reputation' \in [Players -> Int]
      /\ is_game_on' \in BOOLEAN
  BY <1>2, <1>4, PurchaseAwards
<1>7. TypeOK'
  BY <1>0, <1>2, <1>3, <1>5, <1>6 DEF TypeOK
<1>8. CardInOnePlace'
  <2>1. \A c : InHands(c)' = InHands(c)
    BY <1>2 DEF InHands
  <2>2. \A q \in Players : bought'[q] = IF q = p THEN bought[q] \cup {k} ELSE bought[q]
    BY <1>0, <1>2 DEF TypeOK
  <2>3. ASSUME NEW c \in Coupons \ {k} PROVE BoughtBy(c)' = BoughtBy(c)
    BY <2>2 DEF BoughtBy
  <2>4. Only(BoughtBy(k)', p)
    BY <1>4, <2>2 DEF BoughtBy, Only
  <2>5. OnePlace(k)'
    <3>1. None(InSlots(k)') /\ None(InDeck(k)') /\ None(InHands(k)')
      BY <1>3, <2>1
    <3> QED
      BY ONLY <1>0, <1>1, <2>4, <3>1, OnePlaceNext
  <2>6. \A c \in Coupons : OnePlace(c)'
    BY <1>3, <2>1, <2>3, <2>5
  <2> QED
    BY <2>6, OnePlaceOfEach
<1> QED
  BY <1>5, <1>6, <1>7, <1>8 DEF IInv

\* buy_reserved_coupon keeps the invariant: the reserved cards after the one bought
\* move up.
LEMMA BuyReservedCouponInv ==
    ASSUME IInv, NEW p \in Players, NEW i \in 1..ReserveLimit, BuyReservedCoupon(p, i)
    PROVE  IInv'
<1>0. TypeOK /\ \A c \in Coupons : OnePlace(c)
  BY OnePlaceOfEach DEF IInv
<1> DEFINE n == Len(reserved[p])
<1> DEFINE rest == SubSeq(reserved[p], 1, i - 1) \o SubSeq(reserved[p], i + 1, n)
<1>1. /\ reserved \in [Players -> Seq(Coupons \cup {EMPTY})]
      /\ \A q \in Players : Len(reserved[q]) <= ReserveLimit
  BY <1>0 DEF TypeOK
<1>2. i \in 1..n /\ n \in Nat /\ ReserveLimit \in Nat /\ i \in Int
  <2>1. reserved[p] \in Seq(Coupons \cup {EMPTY})
    BY <1>1
  <2>2. DOMAIN reserved[p] = 1..n /\ n \in Nat
    BY <2>1
  <2>3. i \in DOMAIN reserved[p]
    BY DEF BuyReservedCoupon
  <2> HIDE DEF n
  <2>4. ReserveLimit \in Nat /\ i \in Int
    OBVIOUS
  <2> QED
    BY <2>2, <2>3, <2>4
<1>3. PICK k \in Coupons : reserved[p][i] = k
  BY <1>1, <1>2 DEF BuyReservedCoupon
<1>4. /\ Purchase(p, k) /\ UNCHANGED <<coupons, coupons_rest, aborted>>
      /\ bought' = [bought EXCEPT ![p] = @ \cup {k}]
      /\ reserved' = [reserved EXCEPT ![p] = rest]
  BY <1>3 DEF BuyReservedCoupon, Purchase
<1>5. /\ rest \in Seq(Coupons \cup {EMPTY}) /\ Len(rest) = n - 1
      /\ \A j \in 1..(n - 1) : rest[j] = IF j < i THEN reserved[p][j] ELSE reserved[p][j + 1]
  <2>0. reserved[p] \in Seq(Coupons \cup {EMPTY})
    BY <1>1
  <2> DEFINE a == SubSeq(reserved[p], 1, i - 1)
  <2> DEFINE b == SubSeq(reserved[p], i + 1, n)
  <2>1. /\ a \in Seq(Coupons \cup {EMPTY}) /\ Len(a) = i - 1
        /\ \A j \in 1..(i - 1) : a[j] = reserved[p][j]
    <3>1. 1 \in 1..(n + 1) /\ i - 1 \in (1 - 1)..n /\ (i - 1) - 1 + 1 = i - 1
      BY ONLY <1>2
    <3>2. \A j \in 1..(i - 1) : 1 + j - 1 = j
      OBVIOUS
    <3> QED
      BY ONLY <2>0, <3>1, <3>2, SubSeqProperties DEF n
  <2>2. /\ b \in Seq(Coupons \cup {EMPTY}) /\ Len(b) = n - i
        /\ \A j \in 1..(n - i) : b[j] = reserved[p][i + j]
    <3>1. i + 1 \in 1..(n + 1) /\ n \in ((i + 1) - 1)..n /\ n - (i + 1) + 1 = n - i
      BY ONLY <1>2
    <3>2. \A j \in 1..(n - i) : (i + 1) + j - 1 = i + j
      BY ONLY <1>2
    <3> QED
      BY ONLY <2>0, <3>1, <3>2, SubSeqProperties DEF n
  <2> HIDE DEF a, b
  <2>3. /\ a \o b \in Seq(Coupons \cup {EMPTY}) /\ Len(a \o b) = Len(a) + Len(b)
        /\ \A j \in 1..(Len(a) + Len(b)) :
              (a \o b)[j] = IF j <= Len(a) THEN a[j] ELSE b[j - Len(a)]
    <3>1. a \in Seq(Coupons \cup {EMPTY}) /\ b \in Seq(Coupons \cup {EMPTY})
      BY <2>1, <2>2
    <3> QED
      BY ONLY <3>1
  <2>4. Len(a) + Len(b) = n - 1
    BY ONLY <1>2, <2>1, <2>2
  <2>5. ASSUME NEW j \in 1..(n - 1)
        PROVE  (a \o b)[j] = IF j < i THEN reserved[p][j] ELSE reserved[p][j + 1]
    <3>1. CASE j < i
      <4>1. j \in 1..(i - 1) /\ j <= Len(a)
        BY <1>2, <2>1, <3>1
      <4> QED
        BY <2>1, <2>3, <2>4, <3>1, <4>1
    <3>2. CASE ~(j < i)
      <4>1. j - Len(a) \in 1..(n - i) /\ ~(j <= Len(a)) /\ i + (j - Len(a)) = j + 1
        BY ONLY <1>2, <2>1, <3>2, j \in 1..(n - 1)
      <4> QED
        BY <2>2, <2>3, <2>4, <3>2, <4>1
    <3> QED
      BY <3>1, <3>2
  <2> QED
    BY <2>3, <2>4, <2>5 DEF a, b
<1> HIDE DEF rest, n
<1>6. /\ reserved' \in [Players -> Seq(Coupons \cup {EMPTY})]
      /\ \A q \in Players : Len(reserved'[q]) <= ReserveLimit
  <2>1. \A q \in Players : reserved'[q] = IF q = p THEN rest ELSE reserved[q]
    BY <1>1, <1>4
  <2>2. Len(rest) <= ReserveLimit
    BY <1>1, <1>2, <1>5 DEF n
  <2> QED
    BY <1>1, <1>4, <1>5, <2>1, <2>2
<1>7. Only(InHands(k), <<"reserved", p, i>>) /\ None(InSlots(k)) /\ None(InDeck(k))
      /\ None(BoughtBy(k))
  <2>1. <<"reserved", p, i>> \in InHands(k)
    BY <1>1, <1>2, <1>3 DEF InHands, n
  <2> QED
    BY ONLY <1>0, <1>3, <2>1, ElsewhereNot
<1>8. \A q \in Players : k \notin bought[q]
  BY <1>7 DEF None, BoughtBy
<1>9. /\ TokensConserved' /\ OneTurn' /\ HandLimit'
      /\ bank' \in [Tokens -> Int] /\ mine_count' \in [Players -> [Tokens -> Int]]
      /\ status' \in [Players -> {"WAITING", "ACTION", "NEED_RETURN_MINE"}]
  BY <1>4, PurchaseTokens
<1>10. /\ NoOvertime' /\ AlliesAreAwarded' /\ BoughtAreCards'
       /\ owner' \in [Allies -> Players \cup {NOBODY}]
       /\ coupon_count' \in [Players -> [Mines -> Nat]]
       /\ bought' \in [Players -> SUBSET (Coupons \cup {EMPTY})]
       /\ reputation' \in [Players -> Int]
       /\ is_game_on' \in BOOLEAN
  BY <1>4, <1>8, PurchaseAwards
<1>11. TypeOK'
  BY <1>0, <1>4, <1>6, <1>9, <1>10 DEF TypeOK
<1>12. CardInOnePlace'
  <2> DEFINE In(q, j, c)  == j \in DOMAIN reserved[q] /\ reserved[q][j] = c
  <2> DEFINE Now(q, j, c) == j \in DOMAIN reserved'[q] /\ reserved'[q][j] = c
  <2>1. \A c \in Coupons, q \in Players \ {p}, j \in 1..ReserveLimit : Now(q, j, c) <=> In(q, j, c)
    BY <1>1, <1>4
  <2>2. \A c \in Coupons, j \in 1..ReserveLimit :
           /\ j < i => (Now(p, j, c) <=> In(p, j, c))
           /\ j >= i => (Now(p, j, c) <=> In(p, j + 1, c))
    <3>1. reserved'[p] = rest /\ DOMAIN rest = 1..(n - 1) /\ DOMAIN reserved[p] = 1..n
      BY <1>1, <1>4, <1>5 DEF n
    <3> TAKE c \in Coupons, j \in 1..ReserveLimit
    <3>2. ASSUME j < i PROVE Now(p, j, c) <=> In(p, j, c)
      <4>1. j \in 1..(n - 1) /\ j \in 1..n
        BY ONLY <1>2, <3>2, j \in 1..ReserveLimit
      <4> QED
        BY <1>5, <3>1, <3>2, <4>1
    <3>3. ASSUME j >= i PROVE Now(p, j, c) <=> In(p, j + 1, c)
      <4>1. j \in 1..(n - 1) <=> j + 1 \in 1..n
        BY ONLY <1>2, <3>3, j \in 1..ReserveLimit
      <4>2. ~(j < i)
        BY ONLY <1>2, <3>3, j \in 1..ReserveLimit
      <4> QED
        BY <1>5, <3>1, <4>1, <4>2
    <3> QED
      BY <3>2, <3>3
  <2>3. \A c, q, j : q \in Players /\ j \in 1..ReserveLimit =>
           /\ <<"reserved", q, j>> \in InHands(c) <=> In(q, j, c)
           /\ <<"reserved", q, j>> \in InHands(c)' <=> Now(q, j, c)
    BY DEF InHands
  <2>4. \A c : \A x \in InHands(c) \cup InHands(c)' :
           \E q \in Players, j \in 1..ReserveLimit : x = <<"reserved", q, j>>
    BY DEF InHands
  <2>5. \A j : In(p, j, k) /\ j \in 1..ReserveLimit => j = i
    <3>1. \A j : <<"reserved", p, j>> \in InHands(k) => j = i
      BY <1>7 DEF Only
    <3> QED
      BY <2>3, <3>1
  <2>6. \A q \in Players, j \in 1..ReserveLimit : In(q, j, k) => q = p
    <3>1. \A q, j : <<"reserved", q, j>> \in InHands(k) => q = p
      BY <1>7 DEF Only
    <3> QED
      BY <2>3, <3>1
  <2>7. ASSUME NEW c, NEW q \in Players, NEW j, In(q, j, c) PROVE j \in 1..ReserveLimit
    <3>1. /\ reserved[q] \in Seq(Coupons \cup {EMPTY}) /\ Len(reserved[q]) <= ReserveLimit
          /\ j \in DOMAIN reserved[q]
      BY <1>1, <2>7
    <3>2. DOMAIN reserved[q] = 1..Len(reserved[q]) /\ Len(reserved[q]) \in Nat
      BY <3>1
    <3> QED
      BY ONLY <1>2, <3>1, <3>2
  <2> HIDE DEF In, Now
  <2>8. None(InHands(k)')
    <3> SUFFICES ASSUME NEW q \in Players, NEW j \in 1..ReserveLimit, Now(q, j, k)
                 PROVE  FALSE
      BY <2>3, <2>4 DEF None
    <3>1. CASE q # p
      BY <2>1, <2>6, <3>1
    <3>2. CASE q = p /\ j < i
      BY <1>2, <2>2, <2>5, <3>2
    <3>3. CASE q = p /\ j >= i
      <4>1. In(p, j + 1, k)
        BY <2>2, <3>3
      <4>2. j + 1 = i
        BY <2>5, <2>7, <4>1
      <4> QED
        BY <1>2, <3>3, <4>2
    <3> QED
      BY <1>2, <3>1, <3>2, <3>3
  <2>9. \A q \in Players : bought'[q] = IF q = p THEN bought[q] \cup {k} ELSE bought[q]
    BY <1>0, <1>4 DEF TypeOK
  <2>10. Only(BoughtBy(k)', p)
    BY <1>8, <2>9 DEF BoughtBy, Only
  <2>11. \A c : InSlots(c)' = InSlots(c) /\ InDeck(c)' = InDeck(c)
    BY <1>4 DEF InSlots, InDeck
  <2>12. OnePlace(k)'
    <3>1. None(InSlots(k)') /\ None(InDeck(k)')
      BY <1>7, <2>11
    <3> QED
      BY ONLY <1>0, <1>3, <2>8, <2>10, <3>1, OnePlaceNext
  <2>13. ASSUME NEW c \in Coupons, c # k PROVE OnePlace(c)'
    <3>1. BoughtBy(c)' = BoughtBy(c)
      BY <2>9, <2>13 DEF BoughtBy
    <3>2. ~In(p, i, c)
      BY <1>3, <2>13 DEF In
    <3>3. CASE InHands(c) = {}
      <4>1. \A q \in Players, j \in 1..ReserveLimit : ~In(q, j, c)
        BY <2>3, <3>3
      <4>2. InHands(c)' = {}
        <5> SUFFICES ASSUME NEW q \in Players, NEW j \in 1..ReserveLimit, Now(q, j, c)
                     PROVE  FALSE
          BY <2>3, <2>4
        <5>1. q = p
          BY <2>1, <4>1
        <5>2. ~(j < i)
          BY <2>2, <4>1, <5>1
        <5>3. In(p, j + 1, c)
          BY <1>2, <2>2, <5>1, <5>2
        <5>4. j + 1 \in 1..ReserveLimit
          BY <2>7, <5>3
        <5> QED
          BY <4>1, <5>3, <5>4
      <4>3. InHands(c)' = InHands(c)
        BY <3>3, <4>2
      <4> QED
        BY ONLY <1>0, <2>13, <2>11, <3>1, <4>3, OnePlaceNext
    <3>4. ASSUME NEW h \in InHands(c) PROVE OnePlace(c)'
      <4>1. None(InSlots(c)) /\ None(InDeck(c)) /\ Only(InHands(c), h) /\ None(BoughtBy(c))
        BY ONLY <1>0, <2>13, <3>4, ElsewhereNot
      <4>2. PICK q \in Players, j \in 1..ReserveLimit : h = <<"reserved", q, j>>
        BY <2>4
      <4>3. In(q, j, c) /\ \A r \in Players, l \in 1..ReserveLimit : In(r, l, c) => r = q /\ l = j
        BY <2>3, <4>1, <4>2 DEF Only
      <4>4. \A r \in Players : \A l : In(r, l, c) => l \in 1..ReserveLimit
        BY <2>7
      <4> DEFINE to == IF q = p /\ j > i THEN j - 1 ELSE j
      <4>5. to \in 1..ReserveLimit
        BY ONLY <1>2, j \in 1..ReserveLimit
      <4>6. Now(q, to, c)
        <5>1. CASE q # p
          BY <2>1, <4>3, <5>1
        <5>2. CASE q = p /\ j < i
          BY <1>2, <2>2, <4>3, <5>2
        <5>3. CASE q = p /\ j > i
          <6>1. to = j - 1 /\ to >= i /\ to + 1 = j
            BY ONLY <1>2, <5>3, j \in 1..ReserveLimit
          <6> QED
            BY <2>2, <4>3, <4>5, <5>3, <6>1
        <5>4. ~(q = p /\ j = i)
          BY <3>2, <4>3
        <5> QED
          BY <1>2, <5>1, <5>2, <5>3, <5>4
      <4>7. ASSUME NEW r \in Players, NEW l \in 1..ReserveLimit, Now(r, l, c)
            PROVE  r = q /\ l = to
        <5>1. CASE r # p
          BY <2>1, <4>3, <4>7, <5>1
        <5>2. CASE r = p /\ l < i
          <6>1. r = q /\ l = j
            BY <2>2, <4>3, <4>7, <5>2
          <6>2. l \in Int /\ i \in Int /\ l < i
            BY <1>2, <5>2
          <6> QED
            BY ONLY <6>1, <6>2
        <5>3. CASE r = p /\ l >= i
          <6>1. In(p, l + 1, c)
            BY <2>2, <4>7, <5>3
          <6>2. r = q /\ l + 1 = j
            BY <4>3, <4>4, <5>3, <6>1
          <6>3. l \in Int /\ i \in Int /\ l >= i /\ r = p
            BY <1>2, <5>3
          <6> QED
            BY ONLY <6>2, <6>3
        <5> QED
          BY <1>2, <5>1, <5>2, <5>3
      <4> HIDE DEF to
      <4>8. Only(InHands(c)', <<"reserved", q, to>>)
        <5>1. <<"reserved", q, to>> \in InHands(c)'
          BY <2>3, <4>5, <4>6
        <5>2. \A x \in InHands(c)' : x = <<"reserved", q, to>>
          BY <2>3, <2>4, <4>7
        <5> QED
          BY <5>1, <5>2 DEF Only
      <4>9. None(InSlots(c)') /\ None(InDeck(c)') /\ None(BoughtBy(c)')
        BY <2>11, <3>1, <4>1
      <4> QED
        BY ONLY <1>0, <2>13, <4>8, <4>9, OnePlaceNext
    <3> QED
      BY <3>3, <3>4
  <2>14. \A c \in Coupons : OnePlace(c)'
    BY <2>12, <2>13
  <2> QED
    BY <2>14, OnePlaceOfEach
<1> QED
  BY <1>9, <1>10, <1>11, <1>12 DEF IInv

--------------------------------------------------------------------------------
\* IInv holds in every state of a game played by picking only cards that the
\* table shows.
THEOREM Inductive == Spec => []IInv
<1>1. Init => IInv
  BY InitInv
<1>2. IInv /\ [Next]_vars => IInv'
  <2> SUFFICES ASSUME IInv, [Next]_vars PROVE IInv'
    OBVIOUS
  <2>1. CASE UNCHANGED vars
    <3>1. CardInOnePlace' /\ NoOvertime' /\ AlliesAreAwarded' /\ BoughtAreCards'
      BY <2>1, CardsKept DEF vars
    <3>2. TypeOK' /\ OneTurn' /\ HandLimit'
      BY <2>1 DEF IInv, TypeOK, OneTurn, HandLimit, vars
    <3>3. TokensConserved'
      BY <2>1 DEF IInv, TokensConserved, FreshBank, vars
    <3> QED
      BY <3>1, <3>2, <3>3 DEF IInv
  <2>2. ASSUME NEW p \in Players, Move(p) PROVE IInv'
    <3>1. CASE \E mines \in SUBSET Mines : Take3Mines(p, mines)
      BY <3>1, Take3MinesInv
    <3>2. CASE \E mine \in Mines : Take2Mines(p, mine)
      BY <3>2, Take2MinesInv
    <3>3. CASE \E mine \in Tokens : ReturnMine(p, mine)
      BY <3>3, ReturnMineInv
    <3>4. CASE \E s \in Slots : BuyCoupon(p, s)
      BY <3>4, BuyCouponInv
    <3>5. CASE \E s \in Slots : coupons[s] # EMPTY /\ ReserveCoupon(p, s)
      BY <3>5, ReserveCouponInv
    <3>6. CASE \E i \in 1..ReserveLimit : BuyReservedCoupon(p, i)
      BY <3>6, BuyReservedCouponInv
    <3> QED
      BY <2>2, <3>1, <3>2, <3>3, <3>4, <3>5, <3>6 DEF Move
  <2> QED
    BY <2>1, <2>2 DEF Next
<1> QED
  BY <1>1, <1>2, PTL DEF Spec

\* Every variable keeps its type, and nobody reserves more cards than allowed.
THEOREM TypeCorrect == Spec => []TypeOK
<1>1. IInv => TypeOK
  BY DEF IInv
<1> QED
  BY <1>1, Inductive, PTL

\* Every move, returning tokens included, leaves exactly one player in turn.
THEOREM TurnsAreTaken == Spec => []OneTurn
<1>1. IInv => OneTurn
  BY DEF IInv
<1> QED
  BY <1>1, Inductive, PTL

\* Whatever a card costs and whatever the buyer has, a purchase that
\* check_affordabillity lets pass is paid in full: no token is made or lost and
\* no count gets below zero.
THEOREM NoTokenIsLost == Spec => []TokensConserved
<1>1. IInv => TokensConserved
  BY DEF IInv
<1> QED
  BY <1>1, Inductive, PTL

\* Who has too many tokens has to return some, and nobody else has.
THEOREM NobodyHoards == Spec => []HandLimit
<1>1. IInv => HandLimit
  BY DEF IInv
<1> QED
  BY <1>1, Inductive, PTL

\* A card is never in two places, and never lost.
THEOREM CardsAreKept == Spec => []CardInOnePlace
<1>1. IInv => CardInOnePlace
  BY DEF IInv
<1> QED
  BY <1>1, Inductive, PTL

\* The score is what has been earned, each ally counted once, and the game ends
\* with the purchase that wins it.
THEOREM ScoresAreEarned == Spec => []NoOvertime
<1>1. IInv => NoOvertime
  BY DEF IInv
<1> QED
  BY <1>1, Inductive, PTL

================================================================================
