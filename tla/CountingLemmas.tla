--------------------------- MODULE CountingLemmas ---------------------------
(* Facts about cardinality: of sets of triples, for the modules that count   *)
(* units of stock as sets of <<order, type, number>>; of pairs with a number *)
(* and of unions of equal blocks, for those that fill windows with places;   *)
(* and about running totals, for those that add the rows of a table up.      *)
EXTENDS Integers, FiniteSets, FunctionTheorems, FiniteSetTheorems,
        WellFoundedInduction, TLAPS

(* A set of triples over finite sets is finite. *)
LEMMA TriplesFinite ==
  ASSUME NEW A, NEW B, NEW C, IsFiniteSet(A), IsFiniteSet(B), IsFiniteSet(C),
         NEW H, H \subseteq A \X B \X C
  PROVE  IsFiniteSet(H)
<1> DEFINE Pairs == (A \X B) \X C
           flat == [p \in Pairs |-> <<p[1][1], p[1][2], p[2]>>]
<1>1. IsFiniteSet(Pairs)
  BY FS_Product
<1>2. flat \in Surjection(Pairs, A \X B \X C)
  <2>1. flat \in [Pairs -> A \X B \X C]
    OBVIOUS
  <2>2. ASSUME NEW u \in A \X B \X C
        PROVE  \E p \in Pairs : flat[p] = u
    <3>1. <<<<u[1], u[2]>>, u[3]>> \in Pairs
      OBVIOUS
    <3>2. flat[<<<<u[1], u[2]>>, u[3]>>] = u
      BY <3>1
    <3> QED BY <3>1, <3>2
  <2> HIDE DEF flat, Pairs
  <2> QED BY <2>1, <2>2, Fun_IsSurj
<1> HIDE DEF flat, Pairs
<1>3. IsFiniteSet(A \X B \X C)
  BY <1>1, <1>2, FS_Surjection
<1> QED BY <1>3, FS_Subset

(* k units of one order and one type are k elements. *)
LEMMA RunCardinality ==
  ASSUME NEW a, NEW b, NEW k \in Nat, NEW U,
         \A u : u \in U <=> \E n \in 1..k : u = <<a, b, n>>
  PROVE  IsFiniteSet(U) /\ Cardinality(U) = k
<1> DEFINE f == [n \in 1..k |-> <<a, b, n>>]
<1>1. f \in Bijection(1..k, U)
  <2>1. f \in [1..k -> U] OBVIOUS
  <2>2. \A m, n \in 1..k : f[m] = f[n] => m = n OBVIOUS
  <2>3. \A u \in U : \E n \in 1..k : f[n] = u OBVIOUS
  <2> HIDE DEF f
  <2> QED BY <2>1, <2>2, <2>3, Fun_IsBij
<1>2. IsFiniteSet(1..k) /\ Cardinality(1..k) = k
  BY FS_Interval
<1> HIDE DEF f
<1>3. ExistsBijection(1..k, U)
  BY <1>1 DEF ExistsBijection
<1>4. IsFiniteSet(U) /\ Cardinality(U) = k
  BY <1>2, <1>3, FS_Bijection
<1> QED BY <1>4

(* Disjoint finite sets add up. *)
LEMMA DisjointSum ==
  ASSUME NEW S, NEW T, IsFiniteSet(S), IsFiniteSet(T), S \cap T = {}
  PROVE  /\ IsFiniteSet(S \cup T)
         /\ Cardinality(S) \in Nat
         /\ Cardinality(T) \in Nat
         /\ Cardinality(S \cup T) = Cardinality(S) + Cardinality(T)
<1>1. Cardinality(S \cap T) = 0
  BY FS_EmptySet
<1>2. Cardinality(S) \in Nat /\ Cardinality(T) \in Nat
  BY FS_CardinalityType
<1>3. /\ IsFiniteSet(S \cup T)
      /\ Cardinality(S \cup T) = Cardinality(S) + Cardinality(T) - Cardinality(S \cap T)
  BY FS_Union
<1> QED BY <1>1, <1>2, <1>3

(* A subset of a finite set has no more elements. *)
LEMMA SubsetCount ==
  ASSUME NEW S, NEW T, IsFiniteSet(S), T \subseteq S
  PROVE  /\ IsFiniteSet(T)
         /\ Cardinality(T) \in Nat /\ Cardinality(S) \in Nat
         /\ Cardinality(T) <= Cardinality(S)
BY FS_Subset, FS_CardinalityType

(* One more candidate makes at most one more member. *)
LEMMA OneMoreCount ==
  ASSUME NEW S, NEW T, NEW u, IsFiniteSet(S), T \subseteq S \cup {u}
  PROVE  /\ IsFiniteSet(T)
         /\ Cardinality(S) \in Nat /\ Cardinality(T) \in Nat
         /\ Cardinality(T) <= Cardinality(S) + 1
<1>1. /\ IsFiniteSet(S \cup {u})
      /\ Cardinality(S \cup {u}) = IF u \in S THEN Cardinality(S) ELSE Cardinality(S) + 1
  BY FS_AddElement, Zenon
<1>2. Cardinality(S) \in Nat
  BY FS_CardinalityType
<1>3. Cardinality(S \cup {u}) <= Cardinality(S) + 1
  BY <1>1, <1>2
<1>4. /\ IsFiniteSet(T) /\ Cardinality(T) \in Nat /\ Cardinality(S \cup {u}) \in Nat
      /\ Cardinality(T) <= Cardinality(S \cup {u})
  BY <1>1, SubsetCount
<1> QED BY <1>2, <1>3, <1>4

(* Naming the type in every element of a set of pairs does not change how    *)
(* many there are.                                                           *)
LEMMA TaggedCount ==
  ASSUME NEW P, NEW T, NEW t, IsFiniteSet(T),
         \A v \in P : v = <<v[1], v[2]>>,
         \A u : u \in T <=> \E v \in P : u = <<v[1], t, v[2]>>
  PROVE  IsFiniteSet(P) /\ Cardinality(P) = Cardinality(T)
<1> DEFINE f == [u \in T |-> <<u[1], u[3]>>]
<1>1. \A u \in T : \E v \in P : u = <<v[1], t, v[2]>> /\ f[u] = v
  OBVIOUS
<1>2. f \in Bijection(T, P)
  <2>1. f \in [T -> P]
    BY <1>1
  <2>2. \A u, w \in T : f[u] = f[w] => u = w
    BY <1>1
  <2>3. \A v \in P : \E u \in T : f[u] = v
    <3> SUFFICES ASSUME NEW v \in P PROVE \E u \in T : f[u] = v
      OBVIOUS
    <3>1. <<v[1], t, v[2]>> \in T
      OBVIOUS
    <3>2. f[<<v[1], t, v[2]>>] = <<v[1], v[2]>>
      BY <3>1
    <3> QED BY <3>1, <3>2
  <2> HIDE DEF f
  <2> QED BY <2>1, <2>2, <2>3, Fun_IsBij
<1> HIDE DEF f
<1>3. ExistsBijection(T, P)
  BY <1>2 DEF ExistsBijection
<1> QED BY <1>3, FS_Bijection

(* Disjoint blocks of at least c elements each. *)
LEMMA BlocksCount ==
  ASSUME NEW W, NEW U, NEW c \in Nat, IsFiniteSet(W), IsFiniteSet(U),
         NEW b \in [W -> SUBSET U],
         \A w \in W : Cardinality(b[w]) >= c,
         \A v, w \in W : v # w => b[v] \cap b[w] = {}
  PROVE  Cardinality(W) * c <= Cardinality(U)
<1> DEFINE size(w) == Cardinality(b[w])
           g == [w \in W |-> CHOOSE f : f \in Bijection(1..size(w), b[w])]
           F == [p \in W \X (1..c) |-> g[p[1]][p[2]]]
<1>1. ASSUME NEW w \in W
      PROVE  /\ size(w) \in Nat /\ size(w) >= c
             /\ g[w] \in Bijection(1..size(w), b[w])
  <2>1. IsFiniteSet(b[w])
    BY FS_Subset
  <2>2. size(w) \in Nat /\ ExistsBijection(1..size(w), b[w])
    BY <2>1, FS_CardinalityType
  <2>3. \E f : f \in Bijection(1..size(w), b[w])
    BY <2>2 DEF ExistsBijection
  <2> QED BY <2>2, <2>3
<1>2. ASSUME NEW w \in W, NEW i \in 1..c
      PROVE  /\ g[w][i] \in b[w]
             /\ \A j \in 1..c : g[w][i] = g[w][j] => i = j
  <2>1. i \in 1..size(w) /\ \A j \in 1..c : j \in 1..size(w)
    BY <1>1
  <2>2. /\ g[w] \in [1..size(w) -> b[w]]
        /\ \A k, j \in 1..size(w) : g[w][k] = g[w][j] => k = j
    <3> HIDE DEF g, size
    <3> QED BY <1>1, Fun_BijectionProperties
  <2> HIDE DEF g, size
  <2> QED BY <2>1, <2>2
<1>3. F \in Injection(W \X (1..c), U)
  <2> HIDE DEF g
  <2>1. F \in [W \X (1..c) -> U]
    BY <1>2
  <2>2. ASSUME NEW p \in W \X (1..c), NEW q \in W \X (1..c), F[p] = F[q]
        PROVE  p = q
    <3>1. p[1] = q[1]
      BY <1>2, <2>2
    <3>2. p[2] = q[2]
      BY <1>2, <2>2, <3>1
    <3> QED BY <3>1, <3>2
  <2> HIDE DEF F
  <2> QED BY <2>1, <2>2, Fun_IsInj
<1>4. IsFiniteSet(1..c) /\ Cardinality(1..c) = c
  BY FS_Interval
<1>5. Cardinality(W \X (1..c)) = Cardinality(W) * c
  BY <1>4, FS_Product
<1> HIDE DEF F
<1>6. Cardinality(W \X (1..c)) <= Cardinality(U)
  BY <1>3, FS_Injection
<1> QED BY <1>5, <1>6

-----------------------------------------------------------------------------
(* The library's induction theorems take the property as an operator; here it *)
(* is a set, so that the provers can instantiate the facts.                   *)

(* A nonempty set of naturals has a smallest element. *)
LEMMA Smallest ==
  ASSUME NEW T \in SUBSET Nat, T # {}
  PROVE  \E x \in T : \A y \in T : x <= y
<1>1. \E x \in T : \A y \in T : ~ (<<y, x>> \in OpToRel(<, Nat))
  BY NatLessThanWellFounded, WFMin
<1>2. PICK x \in T : \A y \in T : ~ (<<y, x>> \in OpToRel(<, Nat))
  BY <1>1
<1>3. \A y \in T : ~ (y < x)
  BY <1>2 DEF OpToRel
<1> QED
  BY <1>3

(* Induction over 0..N, for a property given as the set of its failures. *)
LEMMA NoFailure ==
  ASSUME NEW N \in Nat, NEW T \in SUBSET (0..N), 0 \notin T,
         \A m \in 1..N : m - 1 \notin T => m \notin T
  PROVE  T = {}
<1> SUFFICES ASSUME T # {} PROVE FALSE
  OBVIOUS
<1>0. T \in SUBSET Nat
  OBVIOUS
<1>1. PICK m \in T : \A k \in T : m <= k
  BY <1>0, Smallest
<1>2. m \in 1..N /\ m - 1 \notin T
  BY <1>1
<1> QED
  BY <1>2

(* f repeats step, a function for each n, starting from base. *)
Iterates(f, N, base, step) ==
  /\ f \in [0..N -> Nat]
  /\ f[0] = base
  /\ \A n \in 1..N : f[n] = step[n][f[n-1]]

LEMMA IterateMore ==
  ASSUME NEW m \in Nat \ {0}, NEW base \in Nat, NEW step, step[m] \in [Nat -> Nat],
         NEW f, Iterates(f, m - 1, base, step)
  PROVE  \E g : Iterates(g, m, base, step)
<1> DEFINE g == [n \in 0..m |-> IF n = m THEN step[m][f[m - 1]] ELSE f[n]]
<1>1. f \in [0..(m - 1) -> Nat] /\ f[0] = base
  BY DEF Iterates
<1>2. f[m - 1] \in Nat /\ step[m][f[m - 1]] \in Nat
  <2>1. m - 1 \in 0..(m - 1)
    OBVIOUS
  <2>2. f[m - 1] \in Nat
    BY <1>1, <2>1
  <2> QED
    BY <2>2
<1>3. g \in [0..m -> Nat]
  <2>1. \A n \in 0..m : n # m => n \in 0..(m - 1)
    OBVIOUS
  <2>2. \A n \in 0..m : n # m => f[n] \in Nat
    BY <2>1, <1>1
  <2> QED
    BY <1>2, <2>2
<1>4. g[0] = base
  BY <1>1
<1>5. ASSUME NEW n \in 1..m PROVE g[n] = step[n][g[n - 1]]
  <2>1. CASE n = m
    BY <2>1
  <2>2. CASE n # m
    <3>1. n \in 1..(m - 1) /\ n \in 0..m /\ n - 1 \in 0..m /\ n - 1 # m
      BY <2>2
    <3>2. g[n] = f[n] /\ g[n - 1] = f[n - 1]
      BY <2>2, <3>1
    <3> QED
      BY <3>1, <3>2 DEF Iterates
  <2> QED
    BY <2>1, <2>2
<1> HIDE DEF g
<1>6. Iterates(g, m, base, step)
  BY <1>3, <1>4, <1>5 DEF Iterates
<1> QED
  BY <1>6

(* There is such a function: what justifies a recursive definition over 0..N. *)
LEMMA Iterate ==
  ASSUME NEW N \in Nat, NEW base \in Nat, NEW step \in [1..N -> [Nat -> Nat]]
  PROVE  \E f : Iterates(f, N, base, step)
<1> DEFINE T == {m \in 0..N : ~ \E f : Iterates(f, m, base, step)}
<1>1. 0 \notin T
  <2>1. Iterates([n \in 0..0 |-> base], 0, base, step)
    BY DEF Iterates
  <2> QED
    BY <2>1
<1>2. ASSUME NEW m \in 1..N, m - 1 \notin T PROVE m \notin T
  <2>1. PICK f : Iterates(f, m - 1, base, step)
    BY <1>2
  <2>2. m \in Nat \ {0}
    OBVIOUS
  <2>3. step[m] \in [Nat -> Nat]
    OBVIOUS
  <2> QED
    BY <2>1, <2>2, <2>3, IterateMore
<1>3. T \in SUBSET (0..N)
  OBVIOUS
<1> HIDE DEF T
<1>4. T = {}
  BY <1>1, <1>2, <1>3, NoFailure
<1>5. N \notin T
  BY <1>4
<1> QED
  BY <1>5 DEF T

-----------------------------------------------------------------------------
(* Sums over sets, as SumFunctionOnSet of Functions adds them up: element by *)
(* element, in the order the subsets of S are chosen from.                   *)
One(s) == CHOOSE x \in s : TRUE
AddsUp(g, f, S) ==
  g = [s \in SUBSET S |-> IF s = {} THEN 0 ELSE f[One(s)] + g[s \ {One(s)}]]
Total(f, S) == (CHOOSE g : AddsUp(g, f, S))[S]

(* Among sets of subsets there is one without a smaller one.                 *)
LEMMA SmallestSet ==
  ASSUME NEW S, IsFiniteSet(S), NEW T \in SUBSET SUBSET S, T # {}
  PROVE  \E s \in T : /\ IsFiniteSet(s)
                      /\ \A x \in s : s \ {x} \notin T
<1>1. \A s \in SUBSET S : IsFiniteSet(s) /\ Cardinality(s) \in Nat
  BY FS_Subset, FS_CardinalityType
<1> DEFINE C == {Cardinality(s) : s \in T}
<1>2. C \in SUBSET Nat /\ C # {}
  BY <1>1
<1>3. PICK c \in C : \A k \in C : c <= k
  BY <1>2, Smallest
<1>4. PICK s \in T : c = Cardinality(s)
  OBVIOUS
<1>5. ASSUME NEW x \in s, s \ {x} \in T PROVE FALSE
  <2>1. Cardinality(s \ {x}) = Cardinality(s) - 1
    BY <1>1, FS_RemoveElement
  <2>2. Cardinality(s \ {x}) \in C
    BY <1>5
  <2>3. c <= Cardinality(s \ {x})
    BY <1>3, <2>2
  <2>4. c \in Nat
    BY <1>1, <1>4
  <2> HIDE DEF C
  <2> QED BY <1>4, <2>1, <2>3, <2>4
<1> QED BY <1>1, <1>5

LEMMA OneIn == ASSUME NEW s, s # {} PROVE One(s) \in s
BY DEF One

(* There is a table of all partial sums, ...                                 *)
LEMMA AddsUpExists ==
  ASSUME NEW S, IsFiniteSet(S), NEW f \in [S -> Nat]
  PROVE  \E g : AddsUp(g, f, S)
<1> DEFINE N == Cardinality(S)
           Next(g, s) == IF s = {} THEN 0 ELSE f[One(s)] + g[s \ {One(s)}]
           Good(n, g) == \A s \in SUBSET S : Cardinality(s) <= n => g[s] = Next(g, s)
           T == {n \in 0..N : ~ \E g \in [SUBSET S -> Nat] : Good(n, g)}
<1>1. N \in Nat /\ \A s \in SUBSET S : IsFiniteSet(s) /\ Cardinality(s) \in Nat
  BY FS_Subset, FS_CardinalityType
<1>2. \A s \in SUBSET S : s # {} =>
        /\ One(s) \in s /\ f[One(s)] \in Nat /\ s \ {One(s)} \in SUBSET S
        /\ Cardinality(s \ {One(s)}) = Cardinality(s) - 1
  <2> TAKE s \in SUBSET S
  <2> HAVE s # {}
  <2>1. One(s) \in s
    BY OneIn
  <2>2. Cardinality(s \ {One(s)}) = Cardinality(s) - 1
    BY <1>1, <2>1, FS_RemoveElement
  <2> QED BY <2>1, <2>2
<1>3. 0 \notin T
  <2> DEFINE zero == [s \in SUBSET S |-> 0]
  <2>1. zero \in [SUBSET S -> Nat]
    OBVIOUS
  <2>2. ASSUME NEW s \in SUBSET S, Cardinality(s) <= 0 PROVE s = {}
    BY <1>1, <2>2, FS_EmptySet
  <2>3. \A s \in SUBSET S : Cardinality(s) <= 0 => zero[s] = Next(zero, s)
    BY <2>2
  <2> QED BY <2>1, <2>3
<1>4. ASSUME NEW m \in 1..N, m - 1 \notin T PROVE m \notin T
  <2>0. m - 1 \in 0..N
    BY <1>1
  <2>1. PICK g \in [SUBSET S -> Nat] : Good(m - 1, g)
    BY <1>4, <2>0
  <2> DEFINE h == [s \in SUBSET S |-> Next(g, s)]
  <2>2. h \in [SUBSET S -> Nat]
    <3> SUFFICES ASSUME NEW s \in SUBSET S PROVE Next(g, s) \in Nat
      OBVIOUS
    <3>1. CASE s # {}
      <4>1. f[One(s)] \in Nat /\ s \ {One(s)} \in SUBSET S
        BY <1>2, <3>1
      <4>2. g[s \ {One(s)}] \in Nat
        BY <4>1
      <4> QED BY <4>1, <4>2
    <3> QED BY <3>1
  <2>3. ASSUME NEW s \in SUBSET S, Cardinality(s) <= m PROVE h[s] = Next(h, s)
    <3>1. CASE s = {}
      BY <3>1
    <3>2. CASE s # {}
      <4>1. s \ {One(s)} \in SUBSET S /\ Cardinality(s \ {One(s)}) <= m - 1
        BY <1>1, <1>2, <2>3, <3>2
      <4>2. h[s \ {One(s)}] = Next(g, s \ {One(s)})
        BY <4>1
      <4>3. g[s \ {One(s)}] = Next(g, s \ {One(s)})
        BY <2>1, <4>1
      <4> QED BY <3>2, <4>2, <4>3
    <3> QED BY <3>1, <3>2
  <2> HIDE DEF h
  <2>4. Good(m, h)
    BY <2>3
  <2> QED BY <2>2, <2>4
<1>5. T = {}
  <2> HIDE DEF T
  <2>1. T \in SUBSET (0..N)
    BY DEF T
  <2> QED BY <1>1, <1>3, <1>4, <2>1, NoFailure
<1>6. PICK g \in [SUBSET S -> Nat] : Good(N, g)
  <2>1. N \in 0..N
    BY <1>1
  <2> QED BY <1>5, <2>1
<1>7. \A s \in SUBSET S : Cardinality(s) <= N
  BY FS_Subset
<1>8. \A s \in SUBSET S : g[s] = Next(g, s)
  BY <1>6, <1>7
<1>9. g = [s \in SUBSET S |-> g[s]]
  BY <1>6
<1> QED BY <1>8, <1>9 DEF AddsUp

(* ... it is a table of numbers, and the tables of a set and a subset agree. *)
LEMMA AddsUpAgree ==
  ASSUME NEW D, NEW f \in [D -> Nat], NEW S \in SUBSET D, IsFiniteSet(S), NEW R \in SUBSET S,
         NEW g, AddsUp(g, f, S), NEW h, AddsUp(h, f, R)
  PROVE  \A s \in SUBSET R : g[s] = h[s] /\ h[s] \in Nat
<1> DEFINE T == {s \in SUBSET R : ~ (g[s] = h[s] /\ h[s] \in Nat)}
<1> SUFFICES ASSUME T # {} PROVE FALSE
  OBVIOUS
<1>1. PICK s \in T : \A x \in s : s \ {x} \notin T
  <2>1. IsFiniteSet(R)
    BY FS_Subset
  <2> QED BY <2>1, SmallestSet
<1>2. /\ g[s] = IF s = {} THEN 0 ELSE f[One(s)] + g[s \ {One(s)}]
      /\ h[s] = IF s = {} THEN 0 ELSE f[One(s)] + h[s \ {One(s)}]
  BY DEF AddsUp
<1>3. s # {}
  BY <1>2
<1>4. One(s) \in s
  BY <1>3, OneIn
<1>5. g[s \ {One(s)}] = h[s \ {One(s)}] /\ h[s \ {One(s)}] \in Nat
  BY <1>1, <1>4
<1>6. f[One(s)] \in Nat
  BY <1>4
<1> QED BY <1>2, <1>3, <1>5, <1>6

LEMMA TotalStep ==
  ASSUME NEW D, NEW f \in [D -> Nat], NEW S \in SUBSET D, IsFiniteSet(S)
  PROVE  /\ Total(f, S) \in Nat
         /\ S = {} => Total(f, S) = 0
         /\ S # {} => Total(f, S) = f[One(S)] + Total(f, S \ {One(S)})
<1> DEFINE TableOf(R) == CHOOSE g : AddsUp(g, f, R)
<1>1. ASSUME NEW R \in SUBSET S PROVE AddsUp(TableOf(R), f, R)
  <2> DEFINE e == [x \in R |-> f[x]]
  <2>1. e \in [R -> Nat]
    OBVIOUS
  <2>2. IsFiniteSet(R)
    BY FS_Subset
  <2>3. PICK g : AddsUp(g, e, R)
    <3> HIDE DEF e
    <3> QED BY <2>1, <2>2, AddsUpExists
  <2>4. \A s \in SUBSET R : s # {} => e[One(s)] = f[One(s)]
    BY OneIn
  <2>5. AddsUp(g, f, R)
    <3>1. g = [s \in SUBSET R |-> IF s = {} THEN 0 ELSE e[One(s)] + g[s \ {One(s)}]]
      BY <2>3 DEF AddsUp
    <3>2. g = [s \in SUBSET R |-> IF s = {} THEN 0 ELSE f[One(s)] + g[s \ {One(s)}]]
      BY <2>4, <3>1
    <3> QED BY <3>2 DEF AddsUp
  <2> QED BY <2>5
<1>2. \A R \in SUBSET S : \A s \in SUBSET R : TableOf(S)[s] = TableOf(R)[s] /\ TableOf(R)[s] \in Nat
  <2> TAKE R \in SUBSET S
  <2>1. AddsUp(TableOf(S), f, S) /\ AddsUp(TableOf(R), f, R)
    BY <1>1
  <2> HIDE DEF TableOf
  <2> QED BY <2>1, AddsUpAgree
<1>3. \A R : Total(f, R) = TableOf(R)[R]
  BY DEF Total
<1>4. TableOf(S)[S] = IF S = {} THEN 0 ELSE f[One(S)] + TableOf(S)[S \ {One(S)}]
  <2>1. AddsUp(TableOf(S), f, S)
    BY <1>1
  <2> HIDE DEF TableOf
  <2> QED BY <2>1 DEF AddsUp
<1> HIDE DEF TableOf
<1>5. S \ {One(S)} \in SUBSET S
  OBVIOUS
<1>6. TableOf(S)[S \ {One(S)}] = TableOf(S \ {One(S)})[S \ {One(S)}]
  BY <1>2, <1>5
<1> QED BY <1>2, <1>3, <1>4, <1>6

(* A sum may begin with any element, ...                                     *)
LEMMA TotalSplit ==
  ASSUME NEW D, NEW f \in [D -> Nat], NEW S \in SUBSET D, IsFiniteSet(S), NEW x \in S
  PROVE  Total(f, S) = f[x] + Total(f, S \ {x})
<1> DEFINE T == {s \in SUBSET S : \E y \in s : Total(f, s) # f[y] + Total(f, s \ {y})}
<1> SUFFICES ASSUME T # {} PROVE FALSE
  OBVIOUS
<1>1. PICK s \in T : IsFiniteSet(s) /\ \A y \in s : s \ {y} \notin T
  BY SmallestSet
<1>2. PICK y \in s : Total(f, s) # f[y] + Total(f, s \ {y})
  OBVIOUS
<1>3. \A R \in SUBSET S : /\ Total(f, R) \in Nat
                          /\ R # {} => Total(f, R) = f[One(R)] + Total(f, R \ {One(R)})
  <2> TAKE R \in SUBSET S
  <2>1. IsFiniteSet(R) /\ R \in SUBSET D
    BY FS_Subset
  <2> HIDE DEF T
  <2> QED BY <2>1, TotalStep
<1>4. PICK z \in s : z = One(s)
  BY OneIn
<1>5. Total(f, s) = f[z] + Total(f, s \ {z})
  BY <1>3, <1>4
<1>6. y # z
  BY <1>2, <1>5
<1>7. Total(f, s \ {z}) = f[y] + Total(f, (s \ {z}) \ {y})
  <2>1. s \ {z} \in SUBSET S /\ y \in s \ {z}
    BY <1>6
  <2> QED BY <1>1, <2>1
<1>8. Total(f, s \ {y}) = f[z] + Total(f, (s \ {y}) \ {z})
  <2>1. s \ {y} \in SUBSET S /\ z \in s \ {y}
    BY <1>6
  <2> QED BY <1>1, <2>1
<1>9. (s \ {z}) \ {y} = (s \ {y}) \ {z}
  OBVIOUS
<1>10. (s \ {y}) \ {z} \in SUBSET S
  OBVIOUS
<1>a. PICK a \in Nat : a = f[y]
  OBVIOUS
<1>b. PICK b \in Nat : b = f[z]
  OBVIOUS
<1>c. PICK c \in Nat : c = Total(f, (s \ {y}) \ {z})
  BY <1>3, <1>10
<1>11. Total(f, s) = b + (a + c) /\ Total(f, s \ {y}) = b + c
  BY <1>5, <1>7, <1>8, <1>9, <1>a, <1>b, <1>c
<1> QED BY <1>2, <1>11, <1>a

(* ... of smaller numbers is smaller, ...                                    *)
LEMMA TotalGrows ==
  ASSUME NEW D, NEW f \in [D -> Nat], NEW h \in [D -> Nat], \A x \in D : f[x] <= h[x],
         NEW S \in SUBSET D, IsFiniteSet(S)
  PROVE  Total(f, S) <= Total(h, S)
<1> DEFINE T == {s \in SUBSET S : ~ Total(f, s) <= Total(h, s)}
<1> SUFFICES ASSUME T # {} PROVE FALSE
  OBVIOUS
<1>1. PICK s \in T : IsFiniteSet(s) /\ \A y \in s : s \ {y} \notin T
  BY SmallestSet
<1>2. \A R \in SUBSET S : /\ Total(f, R) \in Nat /\ Total(h, R) \in Nat
                          /\ R = {} => Total(f, R) = 0 /\ Total(h, R) = 0
                          /\ R # {} => /\ Total(f, R) = f[One(R)] + Total(f, R \ {One(R)})
                                       /\ Total(h, R) = h[One(R)] + Total(h, R \ {One(R)})
  <2> TAKE R \in SUBSET S
  <2>1. IsFiniteSet(R) /\ R \in SUBSET D
    BY FS_Subset
  <2> HIDE DEF T
  <2> QED BY <2>1, TotalStep
<1>3. s # {}
  BY <1>2
<1>4. PICK z \in s : z = One(s)
  BY <1>3, OneIn
<1>5. Total(f, s \ {z}) <= Total(h, s \ {z})
  BY <1>1
<1>6. f[z] \in Nat /\ h[z] \in Nat /\ f[z] <= h[z]
  OBVIOUS
<1>7. s \ {z} \in SUBSET S
  OBVIOUS
<1>a. PICK a \in Nat : a = Total(f, s \ {z})
  BY <1>2, <1>7
<1>b. PICK b \in Nat : b = Total(h, s \ {z})
  BY <1>2, <1>7
<1>8. Total(f, s) = f[z] + a /\ Total(h, s) = h[z] + b
  BY <1>2, <1>3, <1>4, <1>a, <1>b
<1>9. Total(f, s) <= Total(h, s)
  BY <1>5, <1>6, <1>8, <1>a, <1>b
<1> QED BY <1>9

(* ... and is taken over two disjoint sets at once or one after the other.   *)
LEMMA TotalOfUnion ==
  ASSUME NEW D, NEW f \in [D -> Nat], NEW A \in SUBSET D, NEW B \in SUBSET D,
         IsFiniteSet(A), IsFiniteSet(B), A \cap B = {}
  PROVE  Total(f, A \cup B) = Total(f, A) + Total(f, B)
<1> DEFINE T == {s \in SUBSET A : Total(f, s \cup B) # Total(f, s) + Total(f, B)}
<1> SUFFICES ASSUME T # {} PROVE FALSE
  OBVIOUS
<1>1. PICK s \in T : IsFiniteSet(s) /\ \A y \in s : s \ {y} \notin T
  BY SmallestSet
<1>2. \A R \in SUBSET D : IsFiniteSet(R) =>
        /\ Total(f, R) \in Nat
        /\ R = {} => Total(f, R) = 0
        /\ \A x \in R : Total(f, R) = f[x] + Total(f, R \ {x})
  <2> TAKE R \in SUBSET D
  <2> HAVE IsFiniteSet(R)
  <2> HIDE DEF T
  <2>1. Total(f, R) \in Nat /\ (R = {} => Total(f, R) = 0)
    BY TotalStep
  <2>2. \A x \in R : Total(f, R) = f[x] + Total(f, R \ {x})
    BY TotalSplit
  <2> QED BY <2>1, <2>2
<1>3. s # {}
  <2> SUFFICES ASSUME s = {} PROVE FALSE
    OBVIOUS
  <2>1. s \cup B = B
    OBVIOUS
  <2>2. PICK b \in Nat : b = Total(f, B)
    BY <1>2
  <2>3. Total(f, s) = 0
    BY <1>1, <1>2
  <2>4. Total(f, s \cup B) = Total(f, s) + Total(f, B)
    BY <2>1, <2>2, <2>3
  <2> QED BY <2>4
<1>4. PICK z \in s : TRUE
  BY <1>3
<1>5. Total(f, (s \ {z}) \cup B) = Total(f, s \ {z}) + Total(f, B)
  <2>1. s \ {z} \in SUBSET A
    OBVIOUS
  <2> QED BY <1>1, <2>1
<1>6. (s \cup B) \ {z} = (s \ {z}) \cup B
  OBVIOUS
<1>7. IsFiniteSet(s \cup B) /\ IsFiniteSet(s \ {z})
  BY <1>1, FS_Union, FS_Subset
<1>8. Total(f, s \cup B) = f[z] + Total(f, (s \ {z}) \cup B)
  BY <1>2, <1>6, <1>7
<1>9. Total(f, s) = f[z] + Total(f, s \ {z})
  BY <1>1, <1>2
<1>10. f[z] \in Nat /\ Total(f, s \ {z}) \in Nat /\ Total(f, B) \in Nat
  BY <1>2, <1>7
<1> QED BY <1>5, <1>8, <1>9, <1>10
=============================================================================
