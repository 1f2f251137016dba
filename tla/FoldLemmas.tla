------------------------------- MODULE FoldLemmas -------------------------------
(***************************************************************************)
(* Induction over data, and what the folds of the community modules        *)
(* compute.  The library's induction theorems quantify over operators;     *)
(* here they are stated over the set of the values that have the property, *)
(* which the first-order provers can instantiate.                          *)
(***************************************************************************)
EXTENDS SequencesExt, FiniteSetTheorems, WellFoundedInduction, TLAPS

(* Every set of natural numbers that is not empty has a least element. *)
LEMMA LeastNatural ==
  ASSUME NEW T \in SUBSET Nat, T # {}
  PROVE  \E n \in T : \A m \in T : n <= m
<1> DEFINE R == {p \in Nat \X Nat : p[1] < p[2]}
<1>1. IsWellFoundedOn(R, Nat)
  BY NatLessThanWellFounded DEF OpToRel
<1> HIDE DEF R
<1>2. PICK n \in T : \A m \in T : <<m, n>> \notin R
  BY <1>1, WFMin
<1>3. ASSUME NEW m \in T PROVE n <= m
  <2>1. m < n => <<m, n>> \in R
    BY DEF R
  <2>2. QED BY <1>2, <2>1
<1>4. QED BY <1>3

(* Induction over the natural numbers. *)
LEMMA NaturalInduction ==
  ASSUME NEW T \in SUBSET Nat, 0 \in T, \A n \in T : n + 1 \in T
  PROVE  T = Nat
<1>1. CASE Nat \ T # {}
  <2>1. PICK n \in Nat \ T : \A m \in Nat \ T : n <= m
    BY <1>1, LeastNatural
  <2>2. n # 0 /\ n - 1 \in Nat /\ n - 1 \in T
    BY <2>1
  <2>3. (n - 1) + 1 \in T
    BY <2>2
  <2>4. QED BY <2>1, <2>2, <2>3
<1>2. QED BY <1>1

(* Induction over the subsets of a finite set: what holds of a set when it
   holds of every set with one element less, holds of all of them. *)
LEMMA SubsetInduction ==
  ASSUME NEW D, IsFiniteSet(D), NEW T \in SUBSET SUBSET D,
         \A s \in SUBSET D : (\A x \in s : s \ {x} \in T) => s \in T
  PROVE  T = SUBSET D
<1> DEFINE N == {n \in Nat : \A s \in SUBSET D : Cardinality(s) = n => s \in T}
<1>1. \A s \in SUBSET D : IsFiniteSet(s) /\ Cardinality(s) \in Nat
  BY FS_Subset, FS_CardinalityType
<1>2. 0 \in N
  <2>1. \A s \in SUBSET D : Cardinality(s) = 0 => s = {}
    BY <1>1, FS_EmptySet
  <2>2. QED BY <2>1
<1>3. ASSUME NEW n \in N PROVE n + 1 \in N
  <2>1. ASSUME NEW s \in SUBSET D, Cardinality(s) = n + 1, NEW x \in s PROVE s \ {x} \in T
    <3>1. Cardinality(s \ {x}) = Cardinality(s) - 1
      BY <1>1, FS_RemoveElement
    <3>2. s \ {x} \in SUBSET D /\ Cardinality(s \ {x}) = n
      BY <2>1, <3>1
    <3>3. QED BY <3>2
  <2>2. QED BY <2>1
<1>4. N \in SUBSET Nat
  OBVIOUS
<1> HIDE DEF N
<1>5. N = Nat
  BY <1>2, <1>3, <1>4, NaturalInduction
<1>6. QED BY <1>1, <1>5 DEF N

(***************************************************************************)
(* The table of a fold: its value for every subset of what is folded       *)
(***************************************************************************)

Tabled(g, D, base, C, F) ==
  \A s \in SUBSET D : g[s] = IF s = {} THEN base ELSE F[<<C[s], g[s \ {C[s]}]>>]

LEMMA FoldTable ==
  ASSUME NEW D, IsFiniteSet(D), NEW A, NEW base \in A, NEW F \in [D \X A -> A],
         NEW C, \A s \in SUBSET D : s # {} => C[s] \in s
  PROVE  \E g \in [SUBSET D -> A] : Tabled(g, D, base, C, F)
<1> DEFINE Small(n) == {s \in SUBSET D : Cardinality(s) <= n}
           Part(n, g) == \A s \in Small(n) :
                           g[s] = IF s = {} THEN base ELSE F[<<C[s], g[s \ {C[s]}]>>]
           N == {n \in Nat : \E g \in [SUBSET D -> A] : Part(n, g)}
<1>1. \A s \in SUBSET D : IsFiniteSet(s) /\ Cardinality(s) \in Nat
  BY FS_Subset, FS_CardinalityType
<1>2. 0 \in N
  <2>1. \A s \in Small(0) : s = {}
    BY <1>1, FS_EmptySet
  <2>2. Part(0, [s \in SUBSET D |-> base])
    BY <2>1
  <2>3. QED BY <2>2
<1>3. ASSUME NEW n \in N PROVE n + 1 \in N
  <2>1. PICK g \in [SUBSET D -> A] : Part(n, g)
    OBVIOUS
  <2> DEFINE h == [s \in SUBSET D |-> IF s = {} THEN base ELSE F[<<C[s], g[s \ {C[s]}]>>]]
  <2>2. h \in [SUBSET D -> A]
    <3>1. ASSUME NEW s \in SUBSET D, s # {} PROVE F[<<C[s], g[s \ {C[s]}]>>] \in A
      <4>1. C[s] \in D /\ s \ {C[s]} \in SUBSET D
        BY <3>1
      <4>2. g[s \ {C[s]}] \in A
        BY <4>1
      <4>3. QED BY <4>1, <4>2
    <3>2. QED BY <3>1
  <2>3. \A s \in Small(n) : h[s] = g[s]
    BY <2>1
  <2>4. ASSUME NEW s \in Small(n + 1), s # {} PROVE s \ {C[s]} \in Small(n)
    <3>1. C[s] \in s /\ s \in SUBSET D
      BY <2>4
    <3>2. Cardinality(s \ {C[s]}) = Cardinality(s) - 1
      BY <1>1, <3>1, FS_RemoveElement
    <3>3. QED BY <1>1, <2>4, <3>1, <3>2
  <2>5. Part(n + 1, h)
    BY <2>3, <2>4
  <2> HIDE DEF h, Part
  <2>6. n + 1 \in Nat
    OBVIOUS
  <2>7. QED BY <2>2, <2>5, <2>6
<1>4. Cardinality(D) \in N
  <2>1. N \in SUBSET Nat
    OBVIOUS
  <2> HIDE DEF N
  <2>2. N = Nat
    BY <1>2, <1>3, <2>1, NaturalInduction
  <2>3. QED BY <1>1, <2>2
<1>5. \A s \in SUBSET D : s \in Small(Cardinality(D))
  BY FS_Subset
<1>6. QED BY <1>4, <1>5 DEF Tabled

(***************************************************************************)
(* SumFunction                                                             *)
(***************************************************************************)

(* The element that FoldFunction takes next. *)
Next1(s) == CHOOSE x \in s : TRUE

(* What it adds up, as a table. *)
Sums(f, g) == \A s \in SUBSET DOMAIN f : g[s] = IF s = {} THEN 0 ELSE f[Next1(s)] + g[s \ {Next1(s)}]

LEMMA SumsExist ==
  ASSUME NEW D, IsFiniteSet(D), NEW f \in [D -> Nat]
  PROVE  \E g \in [SUBSET D -> Nat] : Sums(f, g)
<1> DEFINE C == [s \in SUBSET D |-> Next1(s)]
           F == [p \in D \X Nat |-> f[p[1]] + p[2]]
<1>1. \A s \in SUBSET D : s # {} => C[s] = Next1(s) /\ C[s] \in s
  BY DEF Next1
<1>2. F \in [D \X Nat -> Nat]
  OBVIOUS
<1>3. \A x \in D, n \in Nat : F[<<x, n>>] = f[x] + n
  OBVIOUS
<1> HIDE DEF C, F
<1>4. PICK g \in [SUBSET D -> Nat] : Tabled(g, D, 0, C, F)
  BY <1>1, <1>2, FoldTable
<1>5. ASSUME NEW s \in SUBSET D, s # {} PROVE g[s] = f[Next1(s)] + g[s \ {Next1(s)}]
  <2>1. Next1(s) \in D /\ g[s \ {Next1(s)}] \in Nat
    BY <1>1, <1>5
  <2>2. g[s] = F[<<C[s], g[s \ {C[s]}]>>]
    BY <1>4, <1>5 DEF Tabled
  <2>3. QED BY <1>1, <1>3, <1>5, <2>1, <2>2
<1>6. g[{}] = 0
  BY <1>4 DEF Tabled
<1>7. Sums(f, g)
  BY <1>5, <1>6 DEF Sums
<1>8. QED BY <1>7

(* The empty set adds up to 0. *)
LEMMA SumsOfNone ==
  ASSUME NEW f, NEW g, Sums(f, g)
  PROVE  g[{}] = 0
<1>1. {} \in SUBSET DOMAIN f
  OBVIOUS
<1>2. QED BY <1>1 DEF Sums

(* SumFunction gives what such a table says of the whole domain. *)
LEMMA SumIsTable ==
  ASSUME NEW D, IsFiniteSet(D), NEW f \in [D -> Nat]
  PROVE  \E g : DOMAIN g = SUBSET D /\ Sums(f, g) /\ SumFunction(f) = g[D]
<1> DEFINE E(g) == [s \in SUBSET DOMAIN f |->
                      IF s = {} THEN 0
                      ELSE f[CHOOSE x \in s : TRUE] + g[s \ {CHOOSE x \in s : TRUE}]]
           G == CHOOSE g : g = E(g)
<1>1. \E g : g = E(g)
  <2>1. PICK g \in [SUBSET D -> Nat] : Sums(f, g)
    BY SumsExist
  <2>2. g = E(g)
    BY <2>1 DEF Sums, Next1
  <2>3. QED BY <2>2
<1>2. G = E(G)
  BY <1>1
<1>3. SumFunction(f) = G[DOMAIN f]
  BY DEF SumFunction, SumFunctionOnSet, FoldFunctionOnSet, MapThenFoldSet
<1> HIDE DEF G
<1>4. DOMAIN f = D
  OBVIOUS
<1>5. DOMAIN G = SUBSET D /\ Sums(f, G)
  BY <1>2, <1>4 DEF Sums, Next1
<1>6. QED BY <1>3, <1>4, <1>5

(* A sum of natural numbers is one. *)
LEMMA SumType ==
  ASSUME NEW D, IsFiniteSet(D), NEW f \in [D -> Nat]
  PROVE  SumFunction(f) \in Nat
<1>1. PICK g : DOMAIN g = SUBSET D /\ Sums(f, g) /\ SumFunction(f) = g[D]
  BY SumIsTable
<1> DEFINE T == {s \in SUBSET D : g[s] \in Nat}
<1>2. ASSUME NEW s \in SUBSET D, \A x \in s : s \ {x} \in T PROVE s \in T
  <2>1. CASE s = {}
    <3>1. g[{}] = 0
      BY <1>1, SumsOfNone
    <3>2. QED BY <2>1, <3>1
  <2>2. CASE s # {}
    <3>1. Next1(s) \in s
      BY <2>2 DEF Next1
    <3>2. g[s] = f[Next1(s)] + g[s \ {Next1(s)}]
      BY <1>1, <2>2 DEF Sums
    <3>3. QED BY <1>2, <3>1, <3>2
  <2>3. QED BY <2>1, <2>2
<1>3. T \in SUBSET SUBSET D
  OBVIOUS
<1> HIDE DEF T
<1>4. T = SUBSET D
  BY <1>2, <1>3, SubsetInduction
<1>5. QED BY <1>1, <1>4 DEF T

(* The sum of two functions added element by element. *)
LEMMA SumAdd ==
  ASSUME NEW D, IsFiniteSet(D), NEW f \in [D -> Nat], NEW e \in [D -> Nat]
  PROVE  SumFunction([d \in D |-> f[d] + e[d]]) = SumFunction(f) + SumFunction(e)
<1> DEFINE h == [d \in D |-> f[d] + e[d]]
<1>1. PICK gf : DOMAIN gf = SUBSET D /\ Sums(f, gf) /\ SumFunction(f) = gf[D]
  BY SumIsTable
<1>2. PICK ge : DOMAIN ge = SUBSET D /\ Sums(e, ge) /\ SumFunction(e) = ge[D]
  BY SumIsTable
<1>3. h \in [D -> Nat]
  OBVIOUS
<1>4. PICK gh : DOMAIN gh = SUBSET D /\ Sums(h, gh) /\ SumFunction(h) = gh[D]
  BY <1>3, SumIsTable
<1>5. \A d \in D : h[d] = f[d] + e[d]
  OBVIOUS
<1> DEFINE T == {s \in SUBSET D : gf[s] \in Nat /\ ge[s] \in Nat /\ gh[s] = gf[s] + ge[s]}
<1> HIDE DEF h
<1>6. ASSUME NEW s \in SUBSET D, \A x \in s : s \ {x} \in T PROVE s \in T
  <2>1. CASE s = {}
    <3>1. gf[{}] = 0 /\ ge[{}] = 0 /\ gh[{}] = 0
      BY <1>1, <1>2, <1>4, SumsOfNone
    <3>2. QED BY <2>1, <3>1
  <2>2. CASE s # {}
    <3> DEFINE x == Next1(s)
    <3>1. x \in s /\ x \in D
      BY <2>2 DEF Next1
    <3>2. gf[s] = f[x] + gf[s \ {x}] /\ ge[s] = e[x] + ge[s \ {x}] /\ gh[s] = h[x] + gh[s \ {x}]
      BY <1>1, <1>2, <1>3, <1>4, <2>2 DEF Sums
    <3>3. s \ {x} \in T
      BY <1>6, <3>1
    <3> HIDE DEF x
    <3>4. f[x] \in Nat /\ e[x] \in Nat /\ h[x] = f[x] + e[x]
      BY <1>5, <3>1
    <3>5. QED BY <3>2, <3>3, <3>4
  <2>3. QED BY <2>1, <2>2
<1>7. T \in SUBSET SUBSET D
  OBVIOUS
<1> HIDE DEF T
<1>8. T = SUBSET D
  BY <1>6, <1>7, SubsetInduction
<1>9. gh[D] = gf[D] + ge[D]
  BY <1>8 DEF T
<1>10. QED BY <1>1, <1>2, <1>4, <1>9 DEF h

(* One more at one point. *)
LEMMA SumOneMore ==
  ASSUME NEW D, IsFiniteSet(D), NEW f \in [D -> Nat], NEW p \in D
  PROVE  SumFunction([f EXCEPT ![p] = @ + 1]) = SumFunction(f) + 1
<1> DEFINE h == [f EXCEPT ![p] = @ + 1]
<1>1. PICK gf : DOMAIN gf = SUBSET D /\ Sums(f, gf) /\ SumFunction(f) = gf[D]
  BY SumIsTable
<1>2. h \in [D -> Nat]
  OBVIOUS
<1>3. PICK gh : DOMAIN gh = SUBSET D /\ Sums(h, gh) /\ SumFunction(h) = gh[D]
  BY <1>2, SumIsTable
<1>4. \A d \in D : f[d] \in Nat /\ h[d] = IF d = p THEN f[d] + 1 ELSE f[d]
  OBVIOUS
<1> DEFINE T == {s \in SUBSET D : gf[s] \in Nat /\ gh[s] = IF p \in s THEN gf[s] + 1 ELSE gf[s]}
<1> HIDE DEF h
<1>5. ASSUME NEW s \in SUBSET D, \A x \in s : s \ {x} \in T PROVE s \in T
  <2>1. CASE s = {}
    <3>1. gf[{}] = 0 /\ gh[{}] = 0
      BY <1>1, <1>3, SumsOfNone
    <3>2. QED BY <2>1, <3>1
  <2>2. CASE s # {}
    <3> DEFINE x == Next1(s)
    <3>1. x \in s /\ x \in D
      BY <2>2 DEF Next1
    <3>2. gf[s] = f[x] + gf[s \ {x}] /\ gh[s] = h[x] + gh[s \ {x}]
      BY <1>1, <1>2, <1>3, <2>2 DEF Sums
    <3>3. s \ {x} \in T
      BY <1>5, <3>1
    <3> HIDE DEF x
    <3>4. CASE x = p
      BY <1>4, <3>1, <3>2, <3>3, <3>4
    <3>5. CASE x # p
      BY <1>4, <3>1, <3>2, <3>3, <3>5
    <3>6. QED BY <3>4, <3>5
  <2>3. QED BY <2>1, <2>2
<1>6. T \in SUBSET SUBSET D
  OBVIOUS
<1> HIDE DEF T
<1>7. T = SUBSET D
  BY <1>5, <1>6, SubsetInduction
<1>8. gh[D] = gf[D] + 1
  BY <1>7 DEF T
<1>9. QED BY <1>1, <1>3, <1>8 DEF h

(* Nothing adds up to nothing. *)
LEMMA SumOfZeros ==
  ASSUME NEW D, IsFiniteSet(D)
  PROVE  SumFunction([d \in D |-> 0]) = 0
<1> DEFINE z == [d \in D |-> 0]
<1>1. z \in [D -> Nat] /\ z = [d \in D |-> z[d] + z[d]]
  OBVIOUS
<1> HIDE DEF z
<1>2. SumFunction(z) = SumFunction(z) + SumFunction(z) /\ SumFunction(z) \in Nat
  BY <1>1, SumAdd, SumType
<1>3. ASSUME NEW n \in Nat, n = n + n PROVE n = 0
  BY <1>3
<1>4. SumFunction(z) = 0
  BY <1>2, <1>3
<1>5. QED BY <1>4 DEF z

(***************************************************************************)
(* FoldLeft                                                                *)
(***************************************************************************)

(* The greatest number of a set that FoldLeft still has to fold. *)
LEMMA MaxOfPrefix ==
  ASSUME NEW n \in Nat
  PROVE  /\ \A s \in SUBSET (1 .. n) : s # {} => Max(s) \in s
         /\ \A k \in 1 .. n : Max(1 .. k) = k /\ (1 .. k) \ {k} = 1 .. (k - 1)
<1>1. ASSUME NEW s \in SUBSET (1 .. n), s # {} PROVE \E x \in s : \A y \in s : x >= y
  <2> DEFINE T == {n - y : y \in s}
  <2>0. \A y \in s : n - y \in Nat
    BY <1>1
  <2>1. T \in SUBSET Nat /\ T # {}
    BY <1>1, <2>0, Zenon
  <2>2. PICK m \in T : \A t \in T : m <= t
    <3> HIDE DEF T
    <3>1. QED BY <2>1, LeastNatural
  <2>3. PICK x \in s : m = n - x
    BY <2>2
  <2>4. \A y \in s : n - x <= n - y
    BY <2>2, <2>3
  <2>5. \A y \in s : x \in Int /\ y \in Int /\ x >= y
    BY <2>4
  <2>6. QED BY <2>5
<1>2. \A s \in SUBSET (1 .. n) : s # {} => Max(s) \in s /\ \A y \in s : Max(s) >= y
  BY <1>1 DEF Max
<1>3. ASSUME NEW k \in 1 .. n PROVE Max(1 .. k) = k
  <2>1. 1 .. k \in SUBSET (1 .. n) /\ k \in 1 .. k
    OBVIOUS
  <2>2. Max(1 .. k) \in 1 .. k /\ Max(1 .. k) >= k
    BY <1>2, <2>1
  <2>3. QED BY <2>2
<1>4. QED BY <1>2, <1>3

LeftTabled(g, n, base, F) ==
  \A s \in SUBSET (1 .. n) : g[s] = IF s = {} THEN base ELSE F[<<Max(s), g[s \ {Max(s)}]>>]

(* The values FoldLeft may go through exist. *)
LEMMA LeftTable ==
  ASSUME NEW n \in Nat, NEW A, NEW base \in A, NEW F \in [(1 .. n) \X A -> A]
  PROVE  \E g \in [SUBSET (1 .. n) -> A] : LeftTabled(g, n, base, F)
<1> DEFINE C == [s \in SUBSET (1 .. n) |-> Max(s)]
<1>1. \A s \in SUBSET (1 .. n) : C[s] = Max(s) /\ (s # {} => C[s] \in s)
  BY MaxOfPrefix
<1>2. IsFiniteSet(1 .. n)
  BY FS_Interval
<1> HIDE DEF C
<1>3. PICK g \in [SUBSET (1 .. n) -> A] : Tabled(g, 1 .. n, base, C, F)
  BY <1>1, <1>2, FoldTable
<1>4. LeftTabled(g, n, base, F)
  <2>1. ASSUME NEW s \in SUBSET (1 .. n)
        PROVE  g[s] = IF s = {} THEN base ELSE F[<<Max(s), g[s \ {Max(s)}]>>]
    <3>1. g[s] = IF s = {} THEN base ELSE F[<<C[s], g[s \ {C[s]}]>>]
      BY <1>3, <2>1 DEF Tabled
    <3>2. C[s] = Max(s)
      BY <1>1, <2>1
    <3>3. QED BY <3>1, <3>2
  <2>2. QED BY <2>1 DEF LeftTabled
<1>5. QED BY <1>3, <1>4

(* A table like that of FoldLeft, for an operator that is a function F on what is
   folded: it goes through one value for each prefix. *)
FoldsLike(G, n, A, base, F) ==
  /\ G[{}] = base
  /\ \A s \in SUBSET (1 .. n) : s # {} /\ G[s \ {Max(s)}] \in A => G[s] = F[<<Max(s), G[s \ {Max(s)}]>>]

GoesThrough(v, n, base, F) == v[0] = base /\ \A k \in 1 .. n : v[k] = F[<<k, v[k - 1]>>]

LeftEnds(G, n, A, base, F) ==
  \E v \in [0 .. n -> A] : GoesThrough(v, n, base, F) /\ G[1 .. n] = v[n]

LEMMA LeftValues ==
  ASSUME NEW n \in Nat, NEW A, NEW base \in A, NEW F \in [(1 .. n) \X A -> A],
         NEW G, FoldsLike(G, n, A, base, F)
  PROVE  LeftEnds(G, n, A, base, F)
<1>1. 1 .. 0 = {}
  OBVIOUS
<1>2. ASSUME NEW k \in 1 .. n, G[1 .. (k - 1)] \in A
      PROVE  G[1 .. k] = F[<<k, G[1 .. (k - 1)]>>] /\ G[1 .. k] \in A
  <2>1. 1 .. k \in SUBSET (1 .. n) /\ 1 .. k # {}
    <3>1. k \in 1 .. k /\ \A i \in 1 .. k : i \in 1 .. n
      OBVIOUS
    <3>2. QED BY <3>1
  <2>2. Max(1 .. k) = k /\ (1 .. k) \ {k} = 1 .. (k - 1)
    BY MaxOfPrefix
  <2>3. QED BY <1>2, <2>1, <2>2 DEF FoldsLike
<1>3. \A k \in 0 .. n : G[1 .. k] \in A
  <2> DEFINE T == {k \in Nat : k <= n => G[1 .. k] \in A}
  <2>1. 0 \in T
    BY <1>1 DEF FoldsLike
  <2>2. ASSUME NEW k \in T PROVE k + 1 \in T
    <3>1. CASE k + 1 <= n
      <4>1. k + 1 \in 1 .. n /\ (k + 1) - 1 = k /\ G[1 .. k] \in A
        BY <3>1
      <4>2. G[1 .. (k + 1)] \in A
        BY <1>2, <4>1
      <4>3. QED BY <4>2
    <3>2. QED BY <3>1
  <2>3. T \in SUBSET Nat
    OBVIOUS
  <2> HIDE DEF T
  <2>4. T = Nat
    BY <2>1, <2>2, <2>3, NaturalInduction
  <2>5. QED BY <2>4 DEF T
<1> DEFINE v == [k \in 0 .. n |-> G[1 .. k]]
<1>4. v \in [0 .. n -> A] /\ \A k \in 0 .. n : v[k] = G[1 .. k]
  BY <1>3
<1>5. 0 \in 0 .. n /\ n \in 0 .. n /\ \A k \in 1 .. n : k \in 0 .. n /\ k - 1 \in 0 .. n
  OBVIOUS
<1> HIDE DEF v
<1>6. v[0] = base
  BY <1>1, <1>4, <1>5 DEF FoldsLike
<1>7. \A k \in 1 .. n : v[k] = F[<<k, v[k - 1]>>]
  BY <1>2, <1>3, <1>4, <1>5
<1>8. QED BY <1>4, <1>5, <1>6, <1>7 DEF GoesThrough, LeftEnds

(* What holds of the first value, and of the next one when it holds of a value,
   holds of the last. *)
LEMMA LeftInduction ==
  ASSUME NEW n \in Nat, NEW T \in SUBSET (0 .. n), 0 \in T, \A k \in 1 .. n : k - 1 \in T => k \in T
  PROVE  n \in T
<1> DEFINE U == {k \in Nat : k <= n => k \in T}
<1>1. 0 \in U
  OBVIOUS
<1>2. ASSUME NEW k \in U PROVE k + 1 \in U
  <2>1. CASE k + 1 <= n
    <3>1. k + 1 \in 1 .. n /\ (k + 1) - 1 \in T
      BY <2>1
    <3>2. QED BY <3>1
  <2>2. QED BY <2>1
<1>3. U \in SUBSET Nat
  OBVIOUS
<1> HIDE DEF U
<1>4. U = Nat
  BY <1>1, <1>2, <1>3, NaturalInduction
<1>5. QED BY <1>4 DEF U

=================================================================================
