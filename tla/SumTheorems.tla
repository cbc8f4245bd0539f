----------------------------- MODULE SumTheorems -----------------------------
(***************************************************************************)
(* What the proofs need to know of SumFunctionOnSet, the SUM of a query    *)
(* over a finite set of rows: what one row contributes, what the change of *)
(* one row changes, the sign of the result, and that sums add up.  The     *)
(* operator is a recursion over subsets; it is shown to be well defined by *)
(* induction over the subsets of a finite set, stated with a set of sets   *)
(* in place of a predicate.                                                *)
(***************************************************************************)
EXTENDS Integers, FiniteSets, Functions, FiniteSetTheorems, WellFoundedInduction, TLAPS

\* The element of a nonempty set that the recursion takes first.
First(s) == CHOOSE x \in s : TRUE

\* g computes the sums over the subsets of S.
IsIter(f, S, g) ==
    g = [s \in SUBSET S |-> IF s = {} THEN 0 ELSE f[First(s)] + g[s \ {First(s)}]]

\* The function that the recursion of a sum chooses.
Iter(f, S) == CHOOSE g : IsIter(f, S, g)

-----------------------------------------------------------------------------
(* The recursion is well defined *)

\* A sum is the value at S of the function its recursion chooses.
LEMMA SumIsIter == \A f, S : SumFunctionOnSet(f, S) = Iter(f, S)[S]
BY DEF SumFunctionOnSet, FoldFunctionOnSet, MapThenFoldSet, Iter, IsIter, First

\* Induction over the subsets of a finite set: a set of sets that holds a set
\* whenever it holds its strict subsets holds them all.
LEMMA SubsetInduction ==
    ASSUME NEW S, IsFiniteSet(S), NEW G,
           \A T \in SUBSET S : (\A U \in SUBSET T : U # T => U \in G) => T \in G
    PROVE  SUBSET S \subseteq G
<1> DEFINE Bad == {T \in SUBSET S : T \notin G}
           R == StrictSubsetOrdering(S)
<1>1. IsWellFoundedOn(R, SUBSET S)
  BY FS_StrictSubsetOrderingWellFounded, FS_FiniteSubsetsOfFinite
<1>2. SUFFICES ASSUME Bad # {} PROVE FALSE
  OBVIOUS
<1>3. Bad \subseteq SUBSET S
  OBVIOUS
<1>4. PICK T \in Bad : \A U \in Bad : ~(<<U, T>> \in R)
  <2> HIDE DEF R, Bad
  <2> QED
    BY <1>1, <1>2, <1>3, WFMin
<1>5. \A U \in SUBSET T : U # T => U \in G
  BY <1>4 DEF StrictSubsetOrdering
<1>6. T \in SUBSET S /\ T \notin G
  BY <1>4
<1> QED
  BY <1>5, <1>6

\* The recursion takes an element of the set, so that what is left is smaller.
LEMMA FirstSmaller ==
    ASSUME NEW s, s # {}
    PROVE  /\ First(s) \in s
           /\ s \ {First(s)} \in SUBSET s
           /\ s \ {First(s)} # s
BY DEF First

\* Two functions that compute the sums over subsets agree where both do.
LEMMA IterUnique ==
    ASSUME NEW f, NEW S, IsFiniteSet(S), NEW T \in SUBSET S,
           NEW g, IsIter(f, S, g), NEW h, IsIter(f, T, h)
    PROVE  \A s \in SUBSET T : g[s] = h[s]
<1> DEFINE G == {s \in SUBSET T : g[s] = h[s]}
<1>1. IsFiniteSet(T)
  BY FS_Subset
<1>2. ASSUME NEW s \in SUBSET T, \A u \in SUBSET s : u # s => u \in G
      PROVE  s \in G
  <2>1. CASE s = {}
    BY <2>1 DEF IsIter
  <2>2. CASE s # {}
    <3>1. s \ {First(s)} \in G
      BY <1>2, <2>2, FirstSmaller
    <3>2. g[s] = f[First(s)] + g[s \ {First(s)}]
      BY <2>2, Zenon DEF IsIter
    <3>3. h[s] = f[First(s)] + h[s \ {First(s)}]
      BY <2>2, Zenon DEF IsIter
    <3> QED
      BY <3>1, <3>2, <3>3
  <2> QED
    BY <2>1, <2>2
<1>3. SUBSET T \subseteq G
  <2> HIDE DEF G
  <2> QED
    BY <1>1, <1>2, SubsetInduction
<1> QED
  BY <1>3
\* Over a finite set the recursion has a solution: if it has one over every
\* strict subset, their values at the top are one over the whole set.
LEMMA IterExists ==
    ASSUME NEW f, NEW S, IsFiniteSet(S)
    PROVE  \A T \in SUBSET S : IsIter(f, T, Iter(f, T))
<1> DEFINE G == {T \in SUBSET S : IsIter(f, T, Iter(f, T))}
           V(u) == Iter(f, u)[u]
<1>1. ASSUME NEW T \in SUBSET S, \A U \in SUBSET T : U # T => U \in G
      PROVE  T \in G
  <2> DEFINE W(s) == IF s = {} THEN 0 ELSE f[First(s)] + V(s \ {First(s)})
             g == [s \in SUBSET T |-> W(s)]
  <2>1. ASSUME NEW u \in SUBSET T, u # T PROVE V(u) = W(u)
    <3>1. IsIter(f, u, Iter(f, u)) /\ IsFiniteSet(u)
      BY <1>1, <2>1, FS_Subset
    <3>2. CASE u = {}
      <4> DEFINE h == Iter(f, u)
      <4>1. h = [s \in SUBSET u |-> IF s = {} THEN 0 ELSE f[First(s)] + h[s \ {First(s)}]]
        BY <3>1 DEF IsIter
      <4> HIDE DEF h
      <4>2. h[u] = 0
        BY <4>1, <3>2
      <4> QED
        BY <4>2, <3>2 DEF h
    <3>3. CASE u # {}
      <4> DEFINE r == u \ {First(u)}
                 h == Iter(f, u)
                 k == Iter(f, r)
      <4>1. r \in SUBSET u /\ r # u
        BY <3>3, FirstSmaller
      <4>2. r \in SUBSET T /\ r # T
        BY <4>1, <2>1
      <4>3. IsIter(f, r, k)
        BY <1>1, <4>2
      <4>4. IsIter(f, u, h)
        BY <3>1
      <4> HIDE DEF h, k
      <4>5. h[r] = k[r]
        <5> HIDE DEF r
        <5>1. \A s \in SUBSET r : h[s] = k[s]
          BY <3>1, <4>1, <4>3, <4>4, IterUnique
        <5> QED
          BY <5>1
      <4>6. h[u] = f[First(u)] + h[r]
        BY <4>4, <3>3, Zenon DEF IsIter
      <4> QED
        BY <4>5, <4>6, <3>3 DEF h, k
    <3> QED
      BY <3>2, <3>3
  <2>2. \A s \in SUBSET T : s # {} => g[s \ {First(s)}] = V(s \ {First(s)})
    <3> SUFFICES ASSUME NEW s \in SUBSET T, s # {}
                 PROVE  g[s \ {First(s)}] = V(s \ {First(s)})
        OBVIOUS
    <3> DEFINE r == s \ {First(s)}
    <3>1. r \in SUBSET T /\ r # T
      BY FirstSmaller
    <3> HIDE DEF r
    <3>2. V(r) = W(r)
      BY <3>1, <2>1
    <3>3. g[r] = W(r)
      BY <3>1
    <3>4. g[r] = V(r)
      BY <3>2, <3>3, Zenon
    <3> QED
      BY <3>4 DEF r
  <2>3. IsIter(f, T, g)
    <3> DEFINE k == [s \in SUBSET T |->
                       IF s = {} THEN 0 ELSE f[First(s)] + g[s \ {First(s)}]]
    <3>1. \A s \in SUBSET T : k[s] = W(s)
      BY <2>2
    <3>2. \A s \in SUBSET T : g[s] = W(s)
      OBVIOUS
    <3>3. g = k
      <4> HIDE DEF W
      <4> QED
        BY <3>1, <3>2
    <3> QED
      BY <3>3 DEF IsIter
  <2> HIDE DEF g
  <2>4. IsIter(f, T, Iter(f, T))
    BY <2>3, Zenon DEF Iter
  <2> QED
    BY <2>4
<1>2. SUBSET S \subseteq G
  <2> HIDE DEF G
  <2> QED
    BY <1>1, SubsetInduction
<1> QED
  BY <1>2

-----------------------------------------------------------------------------
(* What a sum is *)

\* The sum over no rows.
LEMMA SumEmpty == \A f : SumFunctionOnSet(f, {}) = 0
<1> TAKE f
<1> DEFINE g == Iter(f, {})
<1>1. IsIter(f, {}, g)
  BY IterExists, FS_EmptySet
<1> HIDE DEF g
<1>2. g[{}] = 0
  BY <1>1 DEF IsIter
<1> QED
  BY <1>2, SumIsIter DEF g

\* A sum over some rows is the first row and the sum over the others.
LEMMA SumFirst ==
    ASSUME NEW f, NEW S, IsFiniteSet(S), S # {}
    PROVE  SumFunctionOnSet(f, S)
             = f[First(S)] + SumFunctionOnSet(f, S \ {First(S)})
<1> DEFINE r == S \ {First(S)}
           all == Iter(f, S)
           rest == Iter(f, r)
<1>1. r \in SUBSET S
  OBVIOUS
<1>2. IsIter(f, S, all)
  BY IterExists
<1>3. IsIter(f, r, rest)
  BY <1>1, IterExists
<1>4. SumFunctionOnSet(f, S) = all[S] /\ SumFunctionOnSet(f, r) = rest[r]
  BY SumIsIter
<1> HIDE DEF all, rest
<1>5. all[r] = rest[r]
  <2> HIDE DEF r
  <2>1. \A T \in SUBSET S : \A g, h : IsIter(f, S, g) /\ IsIter(f, T, h) => g[T] = h[T]
    BY IterUnique
  <2> QED
    BY <1>1, <1>2, <1>3, <2>1
<1>6. all[S] = f[First(S)] + all[r]
  BY <1>2, Zenon DEF IsIter
<1> QED
  BY <1>4, <1>5, <1>6

\* Sums of integers are integers.
LEMMA SumInt ==
    ASSUME NEW f, NEW S, IsFiniteSet(S), \A x \in S : f[x] \in Int
    PROVE  SumFunctionOnSet(f, S) \in Int
<1> DEFINE G == {T \in SUBSET S : SumFunctionOnSet(f, T) \in Int}
<1>1. ASSUME NEW T \in SUBSET S, \A U \in SUBSET T : U # T => U \in G
      PROVE  T \in G
  <2>1. CASE T = {}
    BY <2>1, SumEmpty
  <2>2. CASE T # {}
    <3>1. T \ {First(T)} \in G /\ First(T) \in T
      BY <1>1, <2>2, FirstSmaller
    <3>2. SumFunctionOnSet(f, T) = f[First(T)] + SumFunctionOnSet(f, T \ {First(T)})
      BY <2>2, SumFirst, FS_Subset
    <3> QED
      BY <3>1, <3>2
  <2> QED
    BY <2>1, <2>2
<1>2. SUBSET S \subseteq G
  <2> HIDE DEF G
  <2> QED
    BY <1>1, SubsetInduction
<1> QED
  BY <1>2

\* Any row may be taken out of a sum, not only the first.
LEMMA SumRemove ==
    ASSUME NEW f, NEW S, IsFiniteSet(S), \A x \in S : f[x] \in Int, NEW x \in S
    PROVE  SumFunctionOnSet(f, S) = f[x] + SumFunctionOnSet(f, S \ {x})
<1> DEFINE V(T) == SumFunctionOnSet(f, T)
           G == {T \in SUBSET S : \A y \in T : V(T) = f[y] + V(T \ {y})}
<1>0. \A T \in SUBSET S : IsFiniteSet(T) /\ V(T) \in Int
  BY SumInt, FS_Subset
<1>1. ASSUME NEW T \in SUBSET S, \A U \in SUBSET T : U # T => U \in G
      PROVE  T \in G
  <2> SUFFICES ASSUME NEW y \in T PROVE V(T) = f[y] + V(T \ {y})
      OBVIOUS
  <2> DEFINE c == First(T)
  <2>1. c \in T /\ V(T) = f[c] + V(T \ {c})
    BY <1>0, SumFirst, FirstSmaller
  <2> HIDE DEF c
  <2>2. CASE y = c
    BY <2>1, <2>2
  <2>3. CASE y # c
    <3>1. V(T \ {c}) = f[y] + V((T \ {c}) \ {y})
      BY <1>1, <2>1, <2>3
    <3>2. V(T \ {y}) = f[c] + V((T \ {c}) \ {y})
      <4>1. V(T \ {y}) = f[c] + V((T \ {y}) \ {c})
        BY <1>1, <2>1, <2>3
      <4>2. (T \ {c}) \ {y} = (T \ {y}) \ {c}
        OBVIOUS
      <4> QED
        BY <4>1, <4>2
    <3>3. V((T \ {c}) \ {y}) \in Int /\ f[c] \in Int /\ f[y] \in Int
      BY <1>0, <2>1
    <3> HIDE DEF V
    <3> QED
      BY <2>1, <3>1, <3>2, <3>3
  <2> QED
    BY <2>2, <2>3
<1>2. SUBSET S \subseteq G
  <2> HIDE DEF G
  <2> QED
    BY <1>1, SubsetInduction
<1> QED
  BY <1>2

\* One more row adds its value.
LEMMA SumAdd ==
    ASSUME NEW f, NEW S, IsFiniteSet(S), NEW x, x \notin S,
           \A y \in S \cup {x} : f[y] \in Int
    PROVE  SumFunctionOnSet(f, S \cup {x}) = f[x] + SumFunctionOnSet(f, S)
<1>1. IsFiniteSet(S \cup {x}) /\ (S \cup {x}) \ {x} = S
  BY FS_AddElement
<1> QED
  BY <1>1, SumRemove

\* A sum depends on the values of its rows only.
LEMMA SumSame ==
    ASSUME NEW f, NEW g, NEW S, IsFiniteSet(S), \A x \in S : f[x] = g[x]
    PROVE  SumFunctionOnSet(f, S) = SumFunctionOnSet(g, S)
<1> DEFINE G == {T \in SUBSET S : SumFunctionOnSet(f, T) = SumFunctionOnSet(g, T)}
<1>1. ASSUME NEW T \in SUBSET S, \A U \in SUBSET T : U # T => U \in G
      PROVE  T \in G
  <2>1. CASE T = {}
    BY <2>1, SumEmpty
  <2>2. CASE T # {}
    <3>1. T \ {First(T)} \in G /\ First(T) \in T
      BY <1>1, <2>2, FirstSmaller
    <3>2. /\ SumFunctionOnSet(f, T) = f[First(T)] + SumFunctionOnSet(f, T \ {First(T)})
          /\ SumFunctionOnSet(g, T) = g[First(T)] + SumFunctionOnSet(g, T \ {First(T)})
      BY <2>2, SumFirst, FS_Subset
    <3> QED
      BY <3>1, <3>2
  <2> QED
    BY <2>1, <2>2
<1>2. SUBSET S \subseteq G
  <2> HIDE DEF G
  <2> QED
    BY <1>1, SubsetInduction
<1> QED
  BY <1>2

\* When the value of one row changes, the sum changes by as much.
LEMMA SumUpdate ==
    ASSUME NEW f, NEW g, NEW S, IsFiniteSet(S), NEW x \in S,
           \A y \in S : f[y] \in Int, g[x] \in Int, \A y \in S \ {x} : g[y] = f[y]
    PROVE  SumFunctionOnSet(g, S) = SumFunctionOnSet(f, S) + g[x] - f[x]
<1>1. IsFiniteSet(S \ {x}) /\ \A y \in S : g[y] \in Int
  BY FS_RemoveElement
<1>2. SumFunctionOnSet(g, S \ {x}) = SumFunctionOnSet(f, S \ {x})
  BY <1>1, SumSame
<1>3. SumFunctionOnSet(f, S \ {x}) \in Int
  BY <1>1, SumInt
<1>4. SumFunctionOnSet(f, S) = f[x] + SumFunctionOnSet(f, S \ {x})
  BY SumRemove
<1>5. SumFunctionOnSet(g, S) = g[x] + SumFunctionOnSet(g, S \ {x})
  BY <1>1, SumRemove
<1> QED
  BY <1>2, <1>3, <1>4, <1>5

\* Larger rows have a larger sum.
LEMMA SumMonotone ==
    ASSUME NEW f, NEW g, NEW S, IsFiniteSet(S),
           \A x \in S : f[x] \in Int /\ g[x] \in Int /\ f[x] <= g[x]
    PROVE  SumFunctionOnSet(f, S) <= SumFunctionOnSet(g, S)
<1> DEFINE G == {T \in SUBSET S : SumFunctionOnSet(f, T) <= SumFunctionOnSet(g, T)}
<1>1. ASSUME NEW T \in SUBSET S, \A U \in SUBSET T : U # T => U \in G
      PROVE  T \in G
  <2>1. CASE T = {}
    BY <2>1, SumEmpty
  <2>2. CASE T # {}
    <3> DEFINE r == T \ {First(T)}
    <3>1. r \in G /\ First(T) \in T /\ IsFiniteSet(r) /\ IsFiniteSet(T)
      BY <1>1, <2>2, FirstSmaller, FS_Subset
    <3>2. /\ SumFunctionOnSet(f, T) = f[First(T)] + SumFunctionOnSet(f, r)
          /\ SumFunctionOnSet(g, T) = g[First(T)] + SumFunctionOnSet(g, r)
      BY <2>2, <3>1, SumFirst
    <3>3. SumFunctionOnSet(f, r) \in Int /\ SumFunctionOnSet(g, r) \in Int
      BY <3>1, SumInt
    <3> QED
      BY <3>1, <3>2, <3>3
  <2> QED
    BY <2>1, <2>2
<1>2. SUBSET S \subseteq G
  <2> HIDE DEF G
  <2> QED
    BY <1>1, SubsetInduction
<1> QED
  BY <1>2

\* A sum of rows that are all zero is zero.
LEMMA SumZero ==
    ASSUME NEW f, NEW S, IsFiniteSet(S), \A x \in S : f[x] = 0
    PROVE  SumFunctionOnSet(f, S) = 0
<1> DEFINE G == {T \in SUBSET S : SumFunctionOnSet(f, T) = 0}
<1>1. ASSUME NEW T \in SUBSET S, \A U \in SUBSET T : U # T => U \in G
      PROVE  T \in G
  <2>1. CASE T = {}
    BY <2>1, SumEmpty
  <2>2. CASE T # {}
    <3>1. T \ {First(T)} \in G /\ First(T) \in T
      BY <1>1, <2>2, FirstSmaller
    <3>2. SumFunctionOnSet(f, T) = f[First(T)] + SumFunctionOnSet(f, T \ {First(T)})
      BY <2>2, SumFirst, FS_Subset
    <3> QED
      BY <3>1, <3>2
  <2> QED
    BY <2>1, <2>2
<1>2. SUBSET S \subseteq G
  <2> HIDE DEF G
  <2> QED
    BY <1>1, SubsetInduction
<1> QED
  BY <1>2

\* A sum of rows that are not negative is not negative.
LEMMA SumNat ==
    ASSUME NEW f, NEW S, IsFiniteSet(S), \A x \in S : f[x] \in Nat
    PROVE  SumFunctionOnSet(f, S) \in Nat
<1> DEFINE z == [x \in S |-> 0]
<1>1. SumFunctionOnSet(z, S) = 0
  BY SumZero
<1>2. SumFunctionOnSet(z, S) <= SumFunctionOnSet(f, S)
  BY SumMonotone
<1>3. SumFunctionOnSet(f, S) \in Int
  BY SumInt
<1> QED
  BY <1>1, <1>2, <1>3

\* Rows that are zero may be left out of a sum.
LEMMA SumSupport ==
    ASSUME NEW f, NEW g, NEW S, IsFiniteSet(S), NEW T \in SUBSET S,
           \A x \in T : f[x] \in Int /\ g[x] = f[x],
           \A x \in S \ T : f[x] = 0
    PROVE  SumFunctionOnSet(f, S) = SumFunctionOnSet(g, T)
<1> DEFINE G == {U \in SUBSET S : SumFunctionOnSet(f, U) = SumFunctionOnSet(g, U \cap T)}
<1>1. ASSUME NEW U \in SUBSET S, \A W \in SUBSET U : W # U => W \in G
      PROVE  U \in G
  <2>1. CASE U = {}
    <3>1. U \cap T = {}
      BY <2>1
    <3> QED
      BY <2>1, <3>1, SumEmpty
  <2>2. CASE U # {}
    <3> DEFINE c == First(U)
               W == U \ {c}
    <3>1. c \in U /\ W \in SUBSET U /\ W # U
      BY <2>2, FirstSmaller
    <3>2. SumFunctionOnSet(f, U) = f[c] + SumFunctionOnSet(f, W)
      BY <2>2, SumFirst, FS_Subset
    <3> HIDE DEF c
    <3>3. SumFunctionOnSet(f, W) = SumFunctionOnSet(g, W \cap T)
      BY <1>1, <3>1
    <3>4. IsFiniteSet(U \cap T)
      BY FS_Subset
    <3>5. CASE c \in T
      <4>1. W \cap T = (U \cap T) \ {c} /\ c \in U \cap T
        BY <3>1, <3>5
      <4>2. SumFunctionOnSet(g, U \cap T) = g[c] + SumFunctionOnSet(g, (U \cap T) \ {c})
        BY <3>4, <4>1, SumRemove
      <4>3. g[c] = f[c]
        BY <3>5
      <4>4. SumFunctionOnSet(f, U) = SumFunctionOnSet(g, U \cap T)
        BY <3>2, <3>3, <4>1, <4>2, <4>3
      <4> QED
        BY <4>4
    <3>6. CASE c \notin T
      <4>1. W \cap T = U \cap T /\ f[c] = 0
        BY <3>1, <3>6
      <4>2. IsFiniteSet(W \cap T) /\ SumFunctionOnSet(g, W \cap T) \in Int
        BY <3>4, <4>1, SumInt
      <4>3. SumFunctionOnSet(f, U) = SumFunctionOnSet(g, U \cap T)
        <5> DEFINE p == SumFunctionOnSet(f, W)
        <5>1. SumFunctionOnSet(g, W \cap T) = p /\ p \in Int
          BY <3>3, <4>2
        <5>2. SumFunctionOnSet(g, U \cap T) = p
          BY <4>1, <5>1
        <5>3. SumFunctionOnSet(f, U) = 0 + p
          BY <3>2, <4>1
        <5> HIDE DEF p
        <5>4. 0 + p = p
          BY <5>1
        <5> QED
          BY <5>2, <5>3, <5>4
      <4> QED
        BY <4>3
    <3> QED
      BY <3>5, <3>6
  <2> QED
    BY <2>1, <2>2
<1>2. SUBSET S \subseteq G
  <2> HIDE DEF G
  <2> QED
    BY <1>1, SubsetInduction
<1>3. S \cap T = T
  OBVIOUS
<1>4. S \in G
  BY <1>2
<1> QED
  BY <1>3, <1>4

\* A sequence that grows adds the value of its last element.
LEMMA SumAppended ==
    ASSUME NEW n \in Nat, NEW f, NEW g, DOMAIN f = 1 .. n, DOMAIN g = 1 .. (n + 1),
           \A i \in 1 .. n : f[i] \in Int /\ g[i] = f[i], g[n + 1] \in Int
    PROVE  SumFunction(g) = SumFunction(f) + g[n + 1]
<1>1. (n + 1) \notin 1 .. n /\ 1 .. (n + 1) = (1 .. n) \cup {n + 1}
  OBVIOUS
<1>2. IsFiniteSet(1 .. n)
  BY FS_Interval
<1>3. SumFunctionOnSet(g, (1 .. n) \cup {n + 1}) = g[n + 1] + SumFunctionOnSet(g, 1 .. n)
  BY <1>1, <1>2, SumAdd
<1>4. SumFunctionOnSet(g, 1 .. n) = SumFunctionOnSet(f, 1 .. n)
  BY <1>2, SumSame
<1>5. SumFunctionOnSet(f, 1 .. n) \in Int
  BY <1>2, SumInt
<1>6. SumFunction(g) = SumFunctionOnSet(g, (1 .. n) \cup {n + 1})
      /\ SumFunction(f) = SumFunctionOnSet(f, 1 .. n)
  BY <1>1 DEF SumFunction
<1> QED
  BY <1>3, <1>4, <1>5, <1>6

\* The sum of sums of two rows each is the sum of two sums.
LEMMA SumPlus ==
    ASSUME NEW f, NEW g, NEW h, NEW S, IsFiniteSet(S),
           \A x \in S : f[x] \in Int /\ g[x] \in Int /\ h[x] = f[x] + g[x]
    PROVE  SumFunctionOnSet(h, S) = SumFunctionOnSet(f, S) + SumFunctionOnSet(g, S)
<1> DEFINE G == {T \in SUBSET S :
                   SumFunctionOnSet(h, T) = SumFunctionOnSet(f, T) + SumFunctionOnSet(g, T)}
<1>1. ASSUME NEW T \in SUBSET S, \A U \in SUBSET T : U # T => U \in G
      PROVE  T \in G
  <2>1. CASE T = {}
    BY <2>1, SumEmpty
  <2>2. CASE T # {}
    <3> DEFINE c == First(T)
               r == T \ {c}
    <3>1. r \in G /\ c \in T /\ IsFiniteSet(r) /\ IsFiniteSet(T)
      BY <1>1, <2>2, FirstSmaller, FS_Subset
    <3>2. /\ SumFunctionOnSet(f, T) = f[c] + SumFunctionOnSet(f, r)
          /\ SumFunctionOnSet(g, T) = g[c] + SumFunctionOnSet(g, r)
          /\ SumFunctionOnSet(h, T) = h[c] + SumFunctionOnSet(h, r)
      BY <2>2, <3>1, SumFirst
    <3>3. SumFunctionOnSet(f, r) \in Int /\ SumFunctionOnSet(g, r) \in Int
      BY <3>1, SumInt
    <3>4. f[c] \in Int /\ g[c] \in Int /\ h[c] = f[c] + g[c]
      BY <3>1
    <3>5. SumFunctionOnSet(h, r) = SumFunctionOnSet(f, r) + SumFunctionOnSet(g, r)
      BY <3>1
    <3> HIDE DEF c, r
    <3> QED
      BY <3>2, <3>3, <3>4, <3>5
  <2> QED
    BY <2>1, <2>2
<1>2. SUBSET S \subseteq G
  <2> HIDE DEF G
  <2> QED
    BY <1>1, SubsetInduction
<1> QED
  BY <1>2

\* Rows that are renamed, no two of them alike, have the same sum.
LEMMA SumImage ==
    ASSUME NEW f, NEW g, NEW m, NEW S, IsFiniteSet(S),
           \A x \in S : g[x] \in Int /\ f[m[x]] = g[x],
           \A x, y \in S : m[x] = m[y] => x = y
    PROVE  /\ IsFiniteSet({m[x] : x \in S})
           /\ SumFunctionOnSet(f, {m[x] : x \in S}) = SumFunctionOnSet(g, S)
<1> DEFINE I(T) == {m[x] : x \in T}
           G == {T \in SUBSET S :
                   IsFiniteSet(I(T)) /\ SumFunctionOnSet(f, I(T)) = SumFunctionOnSet(g, T)}
<1>1. ASSUME NEW T \in SUBSET S, \A U \in SUBSET T : U # T => U \in G
      PROVE  T \in G
  <2>1. CASE T = {}
    <3>1. I(T) = {}
      BY <2>1
    <3> QED
      BY <2>1, <3>1, SumEmpty, FS_EmptySet
  <2>2. CASE T # {}
    <3> DEFINE c == First(T)
               r == T \ {c}
    <3>1. r \in G /\ c \in T /\ IsFiniteSet(r) /\ IsFiniteSet(T)
      BY <1>1, <2>2, FirstSmaller, FS_Subset
    <3>2. SumFunctionOnSet(g, T) = g[c] + SumFunctionOnSet(g, r)
      BY <2>2, <3>1, SumFirst
    <3>3. I(T) = I(r) \cup {m[c]} /\ m[c] \notin I(r)
      BY <3>1
    <3>4. \A y \in I(r) \cup {m[c]} : f[y] \in Int
      BY <3>1
    <3>5. IsFiniteSet(I(r)) /\ SumFunctionOnSet(f, I(r)) = SumFunctionOnSet(g, r)
      BY <3>1
    <3>6. f[m[c]] = g[c]
      BY <3>1
    <3> HIDE DEF c, r, I
    <3>7. SumFunctionOnSet(f, I(r) \cup {m[c]}) = f[m[c]] + SumFunctionOnSet(f, I(r))
      BY <3>3, <3>4, <3>5, SumAdd
    <3>8. IsFiniteSet(I(T))
      BY <3>3, <3>5, FS_AddElement
    <3> QED
      BY <3>2, <3>3, <3>5, <3>6, <3>7, <3>8
  <2> QED
    BY <2>1, <2>2
<1>2. SUBSET S \subseteq G
  <2> HIDE DEF G
  <2> QED
    BY <1>1, SubsetInduction
<1>3. S \in G
  BY <1>2
<1> QED
  BY <1>3
=============================================================================
